---- MODULE Spec2Model ----
(***************************************************************************)
(* A model of the Inglish translator (yogeshhk/Inglish): span resolution,  *)
(* term extraction and guarding, the rule-based baseline translator, the   *)
(* script converter and the pipelines that compose them.                   *)
(*                                                                         *)
(* Text is a TLA+ string; the character at index i (1-based) of s is       *)
(* SubSeq(s, i, i).  Python's 0-based half-open slice s[a:b] is            *)
(* Slice(s, a, b).  Offsets kept in the state (span start / end) are the   *)
(* program's 0-based offsets.                                              *)
(***************************************************************************)
EXTENDS Integers, Sequences, FiniteSets, TLC

VARIABLES
    pc,             \* position of the run: which call has been made last
    raised,         \* "" or the name of the exception that ended the run
    spans,          \* resolve_overlapping_spans: the candidate list (argument)
    resolved,       \* resolve_overlapping_spans: the returned list
    glossary_file,  \* the domain's glossary file: [exists, domain, terms, compound_terms]
    pattern_file,   \* the pattern file: [exists, patterns] (the domain's list)
    glossary,       \* TermExtractor.glossary (what load_glossary returned)
    patterns,       \* TermExtractor.patterns (what load_patterns returned)
    single_terms,   \* TermExtractor.single_terms
    compound_trie,  \* TermExtractor.compound_trie
    deva_map,       \* TermExtractor._deva_map
    text,           \* the input text of the run
    terms,          \* what extract_terms returned
    guarded,        \* what guard_terms returned
    unguarded,      \* what unguard_terms returned
    translated,     \* what the translator's translate returned
    valid,          \* what validate_constraints returned
    term_map,       \* ScriptConverter: the term map, a list of (term, phonetic form)
    to_format,      \* ScriptConverter.convert_mixed_text: the requested script
    indic_available,\* is the transliteration package installed (_INDIC_AVAILABLE)
    converted,      \* what the ScriptConverter call returned
    llm_state,      \* what LLMTranslator.translate meets: package, key, API call
    pipeline_result, \* the record a pipeline's translate returned
    texts,          \* the list of texts given to translate_batch
    results,        \* the list translate_batch returned
    metrics         \* the dictionary evaluate_quality returned

file_vars == <<glossary_file, pattern_file>>
extractor_vars == <<glossary, patterns, single_terms, compound_trie, deva_map>>
resolver_vars == <<spans, resolved>>
run_vars == <<text, terms, guarded, unguarded>>
translator_vars == <<translated, valid>>
converter_vars == <<term_map, to_format, indic_available, converted>>
pipeline_vars == <<llm_state, pipeline_result, texts, results, metrics>>
later_vars == <<translator_vars, converter_vars, pipeline_vars>>
vars == <<pc, raised, resolver_vars, file_vars, extractor_vars, run_vars, later_vars>>

(***************************************************************************)
(* Strings                                                                 *)
(***************************************************************************)
Ch(s, i) == SubSeq(s, i, i)

\* Python s[a:b] for 0 <= a, 0 <= b (indices clamped to len(s) as Python does)
Min(a, b) == IF a <= b THEN a ELSE b
Max(a, b) == IF a >= b THEN a ELSE b
Slice(s, a, b) == SubSeq(s, Min(a, Len(s)) + 1, Min(b, Len(s)))

\* the characters of a string, as a set
Chars(s) == {Ch(s, i) : i \in 1..Len(s)}

\* what str.split() and the regex class \s take for whitespace
WhiteSpace == {" ", "\t", "\n"}

\* str.lower() on ASCII letters
UpperLetters == "ABCDEFGHIJKLMNOPQRSTUVWXYZ"
LowerLetters == "abcdefghijklmnopqrstuvwxyz"
LowerOf == [c \in Chars(UpperLetters) |->
               Ch(LowerLetters, CHOOSE i \in 1..26 : Ch(UpperLetters, i) = c)]
LowerChar(c) == IF c \in DOMAIN LowerOf THEN LowerOf[c] ELSE c

RECURSIVE Lower(_)
Lower(s) ==
    IF Len(s) = 0 THEN ""
    ELSE IF Len(s) = 1 THEN LowerChar(s)
    ELSE Lower(SubSeq(s, 1, Len(s) \div 2)) \o Lower(SubSeq(s, Len(s) \div 2 + 1, Len(s)))

\* the least element of a non-empty set of numbers
MinOf(S) == CHOOSE x \in S : \A y \in S : x <= y

\* the least element of a set of numbers, or a default if the set is empty
LeastOr(S, default) == IF S = {} THEN default ELSE MinOf(S)

\* the one element of a singleton set.  A value x that an operator uses
\* several times is bound as  The({F(x) : x \in {e}})  = F(e)
The(S) == CHOOSE x \in S : TRUE

\* the index after the maximal run of characters of cs that starts at p
RunEnd(s, p, cs) ==
    IF p > Len(s) THEN p
    ELSE LeastOr({k \in p..Len(s) : Ch(s, k) \notin cs}, Len(s) + 1)

\* the index of the first character of cs at or after p, Len(s) + 1 if none
FindChar(s, p, cs) == LeastOr({k \in p..Len(s) : Ch(s, k) \in cs}, Len(s) + 1)

\* does s hold the string w at index p
StartsAt(s, p, w) == p + Len(w) - 1 <= Len(s) /\ SubSeq(s, p, p + Len(w) - 1) = w

\* sub in s (Python's substring test)
Contains(s, sub) == sub = "" \/ \E i \in 1..Len(s) : StartsAt(s, i, sub)

\* str.strip(chars): leading and trailing characters of the set removed
RECURSIVE LStrip(_, _)
LStrip(s, cs) == IF s # "" /\ Head(s) \in cs THEN LStrip(Tail(s), cs) ELSE s
RECURSIVE RStrip(_, _)
RStrip(s, cs) ==
    IF s # "" /\ Ch(s, Len(s)) \in cs THEN RStrip(SubSeq(s, 1, Len(s) - 1), cs) ELSE s
Strip(s, cs) == RStrip(LStrip(s, cs), cs)

\* ord(c) of a tab, a newline or a printable ASCII character (a string of
\* the model cannot hold the grave accent, 96)
AsciiTo95 ==
    " !\"#$%&'()*+,-./0123456789:;<=>?@ABCDEFGHIJKLMNOPQRSTUVWXYZ[\\]^_"
AsciiFrom97 == "abcdefghijklmnopqrstuvwxyz{|}~"
Ord(c) ==
    IF c = "\t" THEN 9 ELSE IF c = "\n" THEN 10
    ELSE IF c \in Chars(AsciiTo95)
         THEN 31 + The({i \in 1..Len(AsciiTo95) : Ch(AsciiTo95, i) = c})
         ELSE 96 + The({i \in 1..Len(AsciiFrom97) : Ch(AsciiFrom97, i) = c})

\* a < b for two str: by the first character that differs, a proper prefix
\* first
StrLess(a, b) ==
    The({IF d = 0 THEN Len(a) < Len(b) ELSE Ord(Ch(a, d)) < Ord(Ch(b, d)) :
             d \in {LeastOr({i \in 1..Min(Len(a), Len(b)) : Ch(a, i) # Ch(b, i)}, 0)}})

\* sorted(list of str)
RECURSIVE InsertString(_, _)
InsertString(x, sorted) ==
    IF sorted = <<>> THEN <<x>>
    ELSE IF StrLess(x, Head(sorted)) THEN <<x>> \o sorted
    ELSE <<Head(sorted)>> \o InsertString(x, Tail(sorted))
RECURSIVE SortedStrings(_)
SortedStrings(seq) ==
    IF seq = <<>> THEN <<>>
    ELSE InsertString(seq[Len(seq)], SortedStrings(SubSeq(seq, 1, Len(seq) - 1)))

\* str.split(): the maximal runs of non-whitespace characters, in order
RECURSIVE SplitFrom(_, _)
SplitFrom(s, i) ==
    The({IF start > Len(s) THEN <<>>
         ELSE The({<<SubSeq(s, start, stop - 1)>> \o SplitFrom(s, stop) :
                       stop \in {FindChar(s, start, WhiteSpace)}}) :
             start \in {RunEnd(s, i, WhiteSpace)}})
Split(s) == SplitFrom(s, 1)

\* sep.join(words)
RECURSIVE Join(_, _)
Join(words, sep) ==
    IF words = <<>> THEN ""
    ELSE IF Len(words) = 1 THEN words[1]
    ELSE words[1] \o sep \o Join(Tail(words), sep)

(***************************************************************************)
(* utils.py: calculate_overlap, resolve_overlapping_spans                  *)
(***************************************************************************)
Span(t, a, b) == [text |-> t, start |-> a, end |-> b]

\* a mutation of calculate_overlap: a shared boundary counts as an overlap
calculate_overlap_closed(s1, s2) ==
    ~(s1.end < s2.start \/ s2.end < s1.start)

\* a mutation of calculate_overlap: only "s2 starts inside s1" is tested
calculate_overlap_one_sided(s1, s2) ==
    s1.start <= s2.start /\ s2.start < s1.end

calculate_overlap(s1, s2) ==
    ~(s1.end <= s2.start \/ s2.end <= s1.start)

\* a mutation of the sort key: the length tie-break is left out
StartOnly(a, b) == a.start < b.start

\* key=lambda x: (x[1], -(x[2] - x[1]))
StartThenLongest(a, b) ==
    \/ a.start < b.start
    \/ a.start = b.start /\ -(a.end - a.start) < -(b.end - b.start)

\* key=lambda x: x[1]   (also key=lambda t: t[2] of guard_terms: the start)
ByStart(a, b) == a.start < b.start

\* key=len of a longest-first sort
ByLength(a, b) == (a.end - a.start) < (b.end - b.start)

\* "key(a) < key(b)" for the sort keys the program uses
KeyLess(key, a, b) ==
    CASE key = "start_longest" -> StartThenLongest(a, b)
      [] key = "start" -> ByStart(a, b)
      [] key = "start_reverse" -> ByStart(b, a)
      [] key = "longest" -> ByLength(b, a)

\* Python's sorted(): a stable sort (sorted(reverse=True) is stable too)
RECURSIVE InsertStable(_, _, _)
InsertStable(x, sorted, key) ==
    IF sorted = <<>> THEN <<x>>
    ELSE LET last == sorted[Len(sorted)]
         IN  IF KeyLess(key, x, last)
             THEN Append(InsertStable(x, SubSeq(sorted, 1, Len(sorted) - 1), key), last)
             ELSE Append(sorted, x)

RECURSIVE SortedStable(_, _)
SortedStable(seq, key) ==
    IF seq = <<>> THEN <<>>
    ELSE InsertStable(seq[Len(seq)],
                      SortedStable(SubSeq(seq, 1, Len(seq) - 1), key),
                      key)

\* the greedy loop of resolve_overlapping_spans over the sorted candidates
RECURSIVE Accept(_, _)
Accept(sorted_spans, result) ==
    IF sorted_spans = <<>> THEN result
    ELSE LET span == Head(sorted_spans)
             overlaps == \E k \in 1..Len(result) : calculate_overlap(span, result[k])
         IN  Accept(Tail(sorted_spans),
                    IF overlaps THEN result ELSE Append(result, span))

resolve_overlapping_spans(sp) ==
    IF sp = <<>> THEN <<>>
    ELSE SortedStable(Accept(SortedStable(sp, "start_longest"), <<>>), "start")

(***************************************************************************)
(* term_extractor.py: TermExtractor                                        *)
(*                                                                         *)
(* A glossary is [terms, compound_terms], each a sequence of entries       *)
(* [term, devanagari] (a bare-string entry is an entry with devanagari     *)
(* ""; a missing glossary file is NoGlossary).  Devanagari text is written *)
(* in ASCII: each Devanagari word is "~" followed by Latin letters, "~"    *)
(* standing for a character of the block U+0900-U+097F.                    *)
(*                                                                         *)
(* A Python dict is [kind |-> "dict", items |-> f], f a function of its    *)
(* keys; the trie's terminal marker value True is [kind |-> "bool"].       *)
(***************************************************************************)
PyTrue == [kind |-> "bool"]
PyDict(f) == [kind |-> "dict", items |-> f]
EmptyDict == PyDict([k \in {} |-> k])
HasKey(node, k) == k \in DOMAIN node.items
\* bool(v) for the values a trie holds
Truthy(v) == v.kind = "bool" \/ DOMAIN v.items # {}

\* node = node.setdefault(word, {}) along the words, then node['$'] = True
RECURSIVE TrieInsert(_, _)
TrieInsert(node, words) ==
    IF words = <<>> THEN PyDict(("$" :> PyTrue) @@ node.items)
    ELSE LET w == Head(words)
             child == IF HasKey(node, w) THEN node.items[w] ELSE EmptyDict
         IN  PyDict((w :> TrieInsert(child, Tail(words))) @@ node.items)

\* the compound-term loop of _load_terms
RECURSIVE BuildTrie(_, _)
BuildTrie(entries, trie) ==
    IF entries = <<>> THEN trie
    ELSE BuildTrie(Tail(entries), TrieInsert(trie, Split(Lower(Head(entries).term))))

\* the _deva_map assignments of _load_terms, in order (later entries win)
RECURSIVE BuildDevaMap(_, _)
BuildDevaMap(entries, m) ==
    IF entries = <<>> THEN m
    ELSE LET e == Head(entries)
         IN  BuildDevaMap(Tail(entries),
                          IF e.devanagari # ""
                          THEN (Lower(e.term) :> e.devanagari) @@ m
                          ELSE m)

\* the characters word.lower().strip('.,!?;:()') removes
StripChars == {".", ",", "!", "?", ";", ":", "(", ")"}
Clean(word) == Strip(Lower(word), StripChars)

\* start = len(prefix) + (1 if prefix else 0), prefix = ' '.join(words[:i])
PrefixStart(words, i) ==
    LET prefix == Join(SubSeq(words, 1, i), " ")
    IN  Len(prefix) + (IF prefix # "" THEN 1 ELSE 0)

\* The inner while loop of _extract_compound_terms for the start index i
\* (0-based), at token j with the trie node reached so far.  The result is
\* [matches, err]: err is the exception the loop ends with, or "".
RECURSIVE CompoundWalk(_, _, _, _, _, _)
CompoundWalk(words, i, j, node, match_words, matches) ==
    IF j >= Len(words) THEN [matches |-> matches, err |-> ""]
    ELSE LET word == Clean(words[j + 1])
         IN  IF ~HasKey(node, word) THEN [matches |-> matches, err |-> ""]
             ELSE LET next == node.items[word]
                      mw == Append(match_words, words[j + 1])
                  IN  IF next.kind = "bool"
                      THEN \* node.get('$') on True
                           [matches |-> matches, err |-> "AttributeError"]
                      ELSE LET terminal == HasKey(next, "$") /\ Truthy(next.items["$"])
                               match_text == Join(mw, " ")
                               start == PrefixStart(words, i)
                               found == IF terminal
                                        THEN Append(matches,
                                                Span(match_text, start, start + Len(match_text)))
                                        ELSE matches
                           IN  CompoundWalk(words, i, j + 1, next, mw, found)

\* the outer loop of _extract_compound_terms
RECURSIVE CompoundFrom(_, _, _, _)
CompoundFrom(words, i, trie, matches) ==
    IF i >= Len(words) THEN [matches |-> matches, err |-> ""]
    ELSE LET r == CompoundWalk(words, i, i, trie, <<>>, matches)
         IN  IF r.err # "" THEN r ELSE CompoundFrom(words, i + 1, trie, r.matches)

extract_compound_terms(trie, txt) == CompoundFrom(Split(txt), 0, trie, <<>>)

\* _extract_single_terms
RECURSIVE SingleFrom(_, _, _)
SingleFrom(words, i, singles) ==
    IF i >= Len(words) THEN <<>>
    ELSE LET word == words[i + 1]
             start == PrefixStart(words, i)
             here == IF Clean(word) \in singles
                     THEN <<Span(word, start, start + Len(word))>>
                     ELSE <<>>
         IN  here \o SingleFrom(words, i + 1, singles)

extract_single_terms(singles, txt) == SingleFrom(Split(txt), 0, singles)

(***************************************************************************)
(* A configured pattern is [regex, cls, min]: regex = "" is an empty       *)
(* pattern string, regex = "bad" one that re rejects (re.error), and       *)
(* regex = "class" stands for the regular expression [cls]+ (min = 1) or   *)
(* [cls]* (min = 0) over the character set cls.                            *)
(***************************************************************************)
RECURSIVE RunLength(_, _, _)
RunLength(txt, p, cls) ==
    IF p < Len(txt) /\ Ch(txt, p + 1) \in cls THEN 1 + RunLength(txt, p + 1, cls) ELSE 0

\* re.finditer of [cls]+ / [cls]*: leftmost, greedy, non-overlapping matches;
\* an empty match is reported where no character of cls starts (also right
\* after a non-empty match and at the end of the text)
RECURSIVE FindIter(_, _, _)
FindIter(pat, txt, p) ==
    IF p > Len(txt) THEN <<>>
    ELSE LET r == RunLength(txt, p, pat.cls)
         IN  IF r >= 1
             THEN <<Span(Slice(txt, p, p + r), p, p + r)>> \o FindIter(pat, txt, p + r)
             ELSE (IF pat.min = 0 THEN <<Span("", p, p)>> ELSE <<>>)
                  \o FindIter(pat, txt, p + 1)

\* _extract_pattern_terms
RECURSIVE extract_pattern_terms(_, _)
extract_pattern_terms(pats, txt) ==
    IF pats = <<>> THEN <<>>
    ELSE LET pat == Head(pats)
             here == IF pat.regex = "" THEN <<>>          \* if not pattern: continue
                     ELSE IF pat.regex = "bad" THEN <<>>  \* except re.error: continue
                     ELSE FindIter(pat, txt, 0)
         IN  here \o extract_pattern_terms(Tail(pats), txt)

\* (term, devanagari, start, end) for each resolved span
RECURSIVE AttachDeva(_, _)
AttachDeva(res, dm) ==
    IF res = <<>> THEN <<>>
    ELSE LET sp == Head(res)
             key == Lower(sp.text)
         IN  <<[term |-> sp.text,
                devanagari |-> IF key \in DOMAIN dm THEN dm[key] ELSE "",
                start |-> sp.start, end |-> sp.end]>>
             \o AttachDeva(Tail(res), dm)

\* extract_terms: [terms, err]
extract_terms(trie, singles, pats, dm, txt) ==
    LET c == extract_compound_terms(trie, txt)
    IN  IF c.err # "" THEN [terms |-> <<>>, err |-> c.err]
        ELSE LET raw == c.matches \o extract_single_terms(singles, txt)
                            \o extract_pattern_terms(pats, txt)
             IN  [terms |-> AttachDeva(resolve_overlapping_spans(raw), dm), err |-> ""]

\* the loop of guard_terms over the terms sorted by start, descending
RECURSIVE GuardLoop(_, _, _)
GuardLoop(txt, sorted_terms, result) ==
    IF sorted_terms = <<>> THEN result
    ELSE LET t == Head(sorted_terms)
             actual == Slice(txt, t.start, t.end)
         IN  GuardLoop(txt, Tail(sorted_terms),
                       Slice(result, 0, t.start) \o "[" \o actual \o "]"
                           \o Slice(result, t.end, Len(result)))

\* guard_terms(text, terms)
guard_terms(txt, tms) ==
    IF tms = <<>> THEN txt
    ELSE GuardLoop(txt, SortedStable(tms, "start_reverse"), txt)

\* the index of the first "]" at or after k, 0 if there is none
FirstClose(s, k) == LeastOr({j \in k..Len(s) : Ch(s, j) = "]"}, 0)

\* \[[^\]]+\] at p: the index of the closing bracket, 0 if there is no match
BracketEnd(s, p) ==
    IF 1 <= p /\ p <= Len(s) /\ Ch(s, p) = "["
    THEN The({IF close > p + 1 THEN close ELSE 0 : close \in {FirstClose(s, p + 1)}})
    ELSE 0

\* the first match of \[[^\]]+\] at or after i: the indices of its brackets
\* (start = 0 if there is no match)
NextBracket(s, i) ==
    The({[start |-> j, close |-> BracketEnd(s, j)] :
             j \in {LeastOr({k \in i..Len(s) : BracketEnd(s, k) # 0}, 0)}})

\* re.sub with count=1: only the first bracketed term loses its brackets
unguard_first(s) ==
    The({IF m.start = 0 THEN s
         ELSE SubSeq(s, 1, m.start - 1) \o SubSeq(s, m.start + 1, m.close - 1)
                  \o SubSeq(s, m.close + 1, Len(s)) :
             m \in {NextBracket(s, 1)}})

\* re.sub(r'\[([^\]]+)\]', r'\1', text) from index i on
RECURSIVE UnguardFrom(_, _)
UnguardFrom(s, i) ==
    The({IF m.start = 0 THEN SubSeq(s, i, Len(s))
         ELSE SubSeq(s, i, m.start - 1) \o SubSeq(s, m.start + 1, m.close - 1)
                  \o UnguardFrom(s, m.close + 1) :
             m \in {NextBracket(s, i)}})

unguard_terms(s) == UnguardFrom(s, 1)

(***************************************************************************)
(* translator.py: BaselineTranslator                                       *)
(***************************************************************************)
Digits == "0123456789"

\* the regex class \w on ASCII text
WordChars == Chars(LowerLetters) \cup Chars(UpperLetters) \cup Chars(Digits) \cup {"_"}

\* str(n) for n >= 0 (the index of an f-string placeholder)
RECURSIVE Str(_)
Str(n) == IF n < 10 THEN Ch(Digits, n + 1) ELSE Str(n \div 10) \o Ch(Digits, (n % 10) + 1)

\* word_map of BaselineTranslator.__init__
word_map ==
    \* articles
    "the" :> "" @@ "a" :> "ek" @@ "an" :> "ek" @@
    \* pronouns
    "this" :> "is" @@ "that" :> "us" @@ "these" :> "in" @@ "those" :> "un" @@
    "it" :> "yeh" @@ "he" :> "voh" @@ "she" :> "voh" @@ "its" :> "iske" @@
    \* prepositions
    "in" :> "mein" @@ "on" :> "par" @@ "at" :> "par" @@ "to" :> "ko" @@
    "of" :> "ka" @@ "from" :> "se" @@ "with" :> "ke saath" @@ "over" :> "ke upar" @@
    "until" :> "jab tak" @@
    \* linking verbs
    "is" :> "hai" @@ "are" :> "hain" @@ "was" :> "tha" @@ "were" :> "the" @@
    "have" :> "hain" @@ "had" :> "tha" @@ "be" :> "ho" @@ "been" :> "gaya" @@
    \* number words
    "zero" :> "shunya" @@ "one" :> "ek" @@ "two" :> "do" @@ "three" :> "teen" @@
    "four" :> "chaar" @@ "five" :> "paanch" @@ "six" :> "chhe" @@ "seven" :> "saat" @@
    "eight" :> "aath" @@ "nine" :> "nau" @@ "ten" :> "das" @@
    \* adjectives / determiners
    "each" :> "har" @@ "every" :> "har" @@ "all" :> "sabhi" @@ "own" :> "khud ka" @@
    "multiple" :> "kai" @@ "new" :> "naya" @@ "same" :> "wahi" @@
    "first" :> "pehla" @@ "last" :> "aakhri" @@ "next" :> "agla" @@
    "previous" :> "pichla" @@
    \* conjunctions / adverbs
    "and" :> "aur" @@ "or" :> "ya" @@ "but" :> "lekin" @@ "then" :> "phir" @@
    "after" :> "baad" @@ "before" :> "pehle" @@ "when" :> "jab" @@ "not" :> "nahi" @@
    "also" :> "bhi" @@ "only" :> "sirf" @@ "always" :> "hamesha" @@
    "never" :> "kabhi nahi" @@
    \* action verbs: infinitive / imperative
    "create" :> "banao" @@ "use" :> "upyog karo" @@ "assign" :> "assign karo" @@
    "iterate" :> "iterate karo" @@ "increment" :> "badhao" @@ "decrement" :> "ghatao" @@
    "return" :> "return karo" @@ "store" :> "store karo" @@ "call" :> "call karo" @@
    "define" :> "define karo" @@ "declare" :> "declare karo" @@ "throw" :> "throw karo" @@
    "run" :> "run karo" @@ "execute" :> "execute karo" @@
    \* action verbs: third person singular present
    "creates" :> "banata hai" @@ "uses" :> "upyog karta hai" @@
    "iterates" :> "iterate karta hai" @@ "incremented" :> "badhaya" @@
    "returns" :> "return karta hai" @@ "stores" :> "store karta hai" @@
    "calls" :> "call karta hai" @@ "defines" :> "define karta hai" @@
    "declares" :> "declare karta hai" @@ "throws" :> "throw karta hai" @@
    "runs" :> "run karta hai" @@ "executes" :> "execute karta hai" @@
    "contains" :> "contain karta hai" @@ "extends" :> "extend karta hai" @@
    "implements" :> "implement karta hai" @@
    "continues" :> "jaari rehta hai" @@
    "becomes" :> "ban jaata hai" @@
    \* action verbs: past
    "created" :> "banaya" @@ "used" :> "upyog kiya" @@ "assigned" :> "assign kiya" @@
    "iterated" :> "iterate kiya" @@
    \* common non-technical nouns
    "name" :> "naam" @@ "time" :> "samay" @@ "way" :> "tarika" @@ "number" :> "number" @@
    "true" :> "true" @@ "false" :> "false"

\* the list _SOV_VERBS is built from, in source order
SOV_VERB_LIST ==
    <<"return karta hai", "store karta hai", "contain karta hai",
      "banata hai", "upyog karta hai", "iterate karta hai",
      "extend karta hai", "implement karta hai", "call karta hai",
      "jaari rehta hai", "ban jaata hai", "define karta hai",
      "declare karta hai", "throw karta hai", "run karta hai",
      "execute karta hai">>

\* sorted(list, key=len, reverse=True): longest first, equal lengths keep
\* their order
RECURSIVE InsertByLen(_, _)
InsertByLen(x, sorted) ==
    IF sorted = <<>> THEN <<x>>
    ELSE IF Len(Head(sorted)) >= Len(x) THEN <<Head(sorted)>> \o InsertByLen(x, Tail(sorted))
    ELSE <<x>> \o sorted
RECURSIVE SortedByLen(_)
SortedByLen(seq) ==
    IF seq = <<>> THEN <<>>
    ELSE InsertByLen(seq[Len(seq)], SortedByLen(SubSeq(seq, 1, Len(seq) - 1)))

\* the verb phrases in the order they are written in
SOV_VERBS_AS_WRITTEN == SOV_VERB_LIST

SOV_VERBS == SortedByLen(SOV_VERB_LIST)

\* $ of a regex: the end of the string, or just before a final newline
AtEnd(s, p) == p = Len(s) + 1 \/ (p = Len(s) /\ Ch(s, p) = "\n")

\* (?:[\w]+|\[[^\]]+\]) at p: the index of the token's last character, 0 if
\* there is no match
TokenEnd(s, p) ==
    IF p <= Len(s) /\ Ch(s, p) \in WordChars THEN RunEnd(s, p, WordChars) - 1
    ELSE BracketEnd(s, p)

\* ([.!?]*)$ at p
PunctThenEnd(s, p) == AtEnd(s, RunEnd(s, p, {".", "!", "?"}))

\* the object of the possession rule: tokens separated by whitespace from q
\* up to the first token that is followed by ([.!?]*)$ ; the index of its
\* last character, 0 if there is no match
RECURSIVE ObjectEnd(_, _)
ObjectEnd(s, q) ==
    The({IF e = 0 THEN 0
         ELSE IF PunctThenEnd(s, e + 1) THEN e
         ELSE The({IF w > e + 1 THEN ObjectEnd(s, w) ELSE 0 :
                       w \in {RunEnd(s, e + 1, WhiteSpace)}}) :
             e \in {TokenEnd(s, q)}})

\* the pattern without the lookahead (?!been\b)
NoLookahead(low, p) == TRUE

\* (?!been\b) at p, under IGNORECASE (low is the text in lower case)
NotBeen(low, p) ==
    ~(/\ StartsAt(low, p, "been")
      /\ (p + 4 > Len(low) \/ Ch(low, p + 4) \notin WordChars))

\* \s+has\s+(?!been\b)object([.!?]*)$ after a subject that ends at e, where
\* w is the index after the whitespace that follows the subject
HasMatch(s, low, e, w) ==
    IF ~StartsAt(low, w, "has") THEN [found |-> FALSE]
    ELSE The({IF o > w + 3 /\ NotBeen(low, o)
              THEN The({IF oe # 0
                        THEN [found |-> TRUE, subject_end |-> e, object_start |-> o,
                              object_end |-> oe]
                        ELSE [found |-> FALSE] :
                            oe \in {ObjectEnd(s, o)}})
              ELSE [found |-> FALSE] :
                  o \in {RunEnd(s, w + 3, WhiteSpace)}})

\* the subject of the possession rule, matched lazily from the token at q:
\* after each token the rest of the pattern is tried before one more token
\* is taken (low is s in lower case: the rule is IGNORECASE)
RECURSIVE SubjectMatch(_, _, _)
SubjectMatch(s, low, q) ==
    The({IF e = 0 THEN [found |-> FALSE]
         ELSE The({IF w = e + 1 THEN [found |-> FALSE]
                   ELSE The({IF m.found THEN m ELSE SubjectMatch(s, low, w) :
                                 m \in {HasMatch(s, low, e, w)}}) :
                       w \in {RunEnd(s, e + 1, WhiteSpace)}}) :
             e \in {TokenEnd(s, q)}})

\* the rewrite r'\1 mein \2 hain\3' of the match m that starts at p
PossessionRewrite(s, p, m) ==
    The({SubSeq(s, 1, p - 1)
             \o SubSeq(s, p, m.subject_end) \o " mein "
             \o SubSeq(s, m.object_start, m.object_end) \o " hain"
             \o SubSeq(s, m.object_end + 1, stop - 1)
             \o SubSeq(s, stop, Len(s)) :
             stop \in {RunEnd(s, m.object_end + 1, {".", "!", "?"})}})

\* pattern.sub(r'\1 mein \2 hain\3', text) of the possession rule: the
\* leftmost match is rewritten (the pattern ends in $, so there is one)
PossessionIn(s, low) ==
    IF ~Contains(low, "has") THEN s    \* the pattern cannot match
    ELSE The({IF p = 0 THEN s ELSE PossessionRewrite(s, p, SubjectMatch(s, low, p)) :
                  p \in {LeastOr({q \in 1..Len(s) : SubjectMatch(s, low, q).found}, 0)}})

possession_rule(s) == PossessionIn(s, Lower(s))

\* for pattern, replacement in self._pre_rules: the one rule
pre_rules(s) == possession_rule(s)

\* the placeholder of the n-th protected term: f'__P{n}__'
PlaceholderKey(n) == "__P" \o Str(n) \o "__"

\* re.findall(r'\[([^\]]+)\]', s): the contents of the bracketed terms
RECURSIVE BracketedFrom(_, _)
BracketedFrom(s, i) ==
    The({IF m.start = 0 THEN <<>>
         ELSE <<SubSeq(s, m.start + 1, m.close - 1)>> \o BracketedFrom(s, m.close + 1) :
             m \in {NextBracket(s, i)}})
bracketed_terms(s) == BracketedFrom(s, 1)

\* the comparison of validate_constraints without the two sorted() calls
validate_in_order(original, translation) ==
    bracketed_terms(original) = bracketed_terms(translation)

\* BaseTranslator.validate_constraints
validate_constraints(original, translation) ==
    SortedStrings(bracketed_terms(original)) = SortedStrings(bracketed_terms(translation))

\* re.sub(r'\[([^\]]+)\]', protect, result): every bracketed term, left to
\* right, becomes the next placeholder (n placeholders are already minted)
RECURSIVE ProtectFrom(_, _, _)
ProtectFrom(s, i, n) ==
    The({IF m.start = 0 THEN SubSeq(s, i, Len(s))
         ELSE SubSeq(s, i, m.start - 1) \o PlaceholderKey(n)
                  \o ProtectFrom(s, m.close + 1, n + 1) :
             m \in {NextBracket(s, i)}})

\* the dict protected as the list of its values m.group(0) in key order:
\* element n + 1 belongs to the key __P{n}__
Bracketed(found) == [k \in 1..Len(found) |-> "[" \o found[k] \o "]"]

\* the text with its placeholders, and the dict protected
protect(s) == [text |-> ProtectFrom(s, 1, 0), protected |-> Bracketed(bracketed_terms(s))]

\* word in protected
IsPlaceholder(word, protected) ==
    \E n \in 0..(Len(protected) - 1) : word = PlaceholderKey(n)

\* one word of step 3 if the cleaned form were appended for an unmapped word
SubstituteCleaned(word, clean, protected) ==
    IF IsPlaceholder(word, protected) THEN <<word>>
    ELSE IF clean \in DOMAIN word_map
         THEN (IF word_map[clean] # "" THEN <<word_map[clean]>> ELSE <<>>)
         ELSE <<clean>>

\* one word of step 3: the list of what is appended to out for it
SubstituteWord(word, clean, protected) ==
    IF IsPlaceholder(word, protected) THEN <<word>>
    ELSE IF clean \in DOMAIN word_map
         THEN (IF word_map[clean] # "" THEN <<word_map[clean]>> ELSE <<>>)
         ELSE <<word>>

\* the loop of step 3 over the words from index k
RECURSIVE SubstituteFrom(_, _, _)
SubstituteFrom(words, k, protected) ==
    IF k > Len(words) THEN <<>>
    ELSE SubstituteWord(words[k], Strip(Lower(words[k]), StripChars), protected)
             \o SubstituteFrom(words, k + 1, protected)

\* step 3: word-by-word substitution
substitute_words(s, protected) == Join(SubstituteFrom(Split(s), 1, protected), " ")

\* the post-rule pattern \[([^\]]+)\]<mid>\[([^\]]+)\] at i: the indices of
\* the closing brackets of the two terms (second = 0 if there is no match)
PairAt(s, i, mid) ==
    The({[first |-> e1,
          second |-> IF e1 # 0 /\ StartsAt(s, e1 + 1, mid)
                     THEN BracketEnd(s, e1 + Len(mid) + 1) ELSE 0] :
             e1 \in {BracketEnd(s, i)}})

\* the rewrite r'[\2]<rep>[\1]' of the match at j
PairRewrite(s, j, m, mid, rep) ==
    "[" \o SubSeq(s, m.first + Len(mid) + 2, m.second - 1) \o "]" \o rep
        \o "[" \o SubSeq(s, j + 1, m.first - 1) \o "]"

\* a post rule re.sub(r'\[([^\]]+)\]<mid>\[([^\]]+)\]', r'[\2]<rep>[\1]', s)
RECURSIVE PostRuleFrom(_, _, _, _)
PostRuleFrom(s, i, mid, rep) ==
    The({IF j = 0 THEN SubSeq(s, i, Len(s))
         ELSE The({SubSeq(s, i, j - 1) \o PairRewrite(s, j, m, mid, rep)
                       \o PostRuleFrom(s, m.second + 1, mid, rep) :
                       m \in {PairAt(s, j, mid)}}) :
             j \in {LeastOr({k \in i..Len(s) : PairAt(s, k, mid).second # 0}, 0)}})

\* step 4: "[X] of [Y]" -> "[Y] ka [X]", then "[X] in [Y]" -> "[Y] mein [X]"
post_rules(s) == PostRuleFrom(PostRuleFrom(s, 1, " of ", " ka "), 1, " in ", " mein ")

SovPunct == {".", ",", "!", "?"}

\* re.match(r'^(.+?)\s+' + verb + r'\s+(.+?)([.,!?]*)$', s) when group 1 is
\* the first i characters: the index where group 2 starts, 0 if the rest
\* does not match.  s is the ' '.join of step 3: it holds no newline and no
\* whitespace at its ends.
SovObjectStart(s, verb, i) ==
    The({IF ~StartsAt(s, w, verb) THEN 0
         ELSE The({IF o > w + Len(verb) /\ o <= Len(s) THEN o ELSE 0 :
                       o \in {RunEnd(s, w + Len(verb), WhiteSpace)}}) :
             w \in {RunEnd(s, i + 1, WhiteSpace)}})

\* the match with the shortest group 1; gaps are the lengths of the prefixes
\* of s that are followed by whitespace
SovMatch(s, verb, gaps) ==
    The({IF i = 0 THEN [found |-> FALSE]
         ELSE [found |-> TRUE, before |-> SubSeq(s, 1, i),
               after |-> SubSeq(s, SovObjectStart(s, verb, i), Len(s))] :
             i \in {LeastOr({g \in gaps : SovObjectStart(s, verb, g) # 0}, 0)}})

\* groups 2 and 3: (.+?)([.,!?]*)$ splits off the trailing punctuation, and
\* group 2 keeps at least one character
SovSplit(after, stripped) ==
    IF stripped = "" THEN SubSeq(after, 1, 1) ELSE stripped
SovObject(after) == SovSplit(after, RStrip(after, SovPunct))

\* the sentence with the verb phrase left between subject and object
SovKeepOrder(m, verb, obj) == m.before \o " " \o verb \o " " \o m.after

\* f'{m.group(1)} {m.group(2)} {verb}{m.group(3)}'
SovRewrite(m, verb, obj) ==
    m.before \o " " \o obj \o " " \o verb \o SubSeq(m.after, Len(obj) + 1, Len(m.after))

\* step 5: the first verb of _SOV_VERBS that matches is moved to the end
RECURSIVE SovFrom(_, _, _)
SovFrom(s, k, gaps) ==
    IF k > Len(SOV_VERBS) THEN s
    ELSE The({IF m.found THEN SovRewrite(m, SOV_VERBS[k], SovObject(m.after))
              ELSE SovFrom(s, k + 1, gaps) :
                  m \in {SovMatch(s, SOV_VERBS[k], gaps)}})

sov_reorder(s) == SovFrom(s, 1, {i \in 1..(Len(s) - 1) : Ch(s, i + 1) \in WhiteSpace})

\* str.replace(old, new): every occurrence, left to right, not overlapping
RECURSIVE ReplaceFrom(_, _, _, _)
ReplaceFrom(s, i, old, new) ==
    The({IF j = 0 THEN SubSeq(s, i, Len(s))
         ELSE SubSeq(s, i, j - 1) \o new \o ReplaceFrom(s, j + Len(old), old, new) :
             j \in {LeastOr({k \in i..Len(s) : StartsAt(s, k, old)}, 0)}})
Replace(s, old, new) == ReplaceFrom(s, 1, old, new)

\* step 6: for key, term in protected.items(): result.replace(key, term)
RECURSIVE RestoreFrom(_, _, _)
RestoreFrom(s, protected, n) ==
    IF n >= Len(protected) THEN s
    ELSE RestoreFrom(Replace(s, PlaceholderKey(n), protected[n + 1]), protected, n + 1)

restore(s, protected) == RestoreFrom(s, protected, 0)

\* re.sub(r'\s+', ' ', s)
RECURSIVE CollapseFrom(_, _)
CollapseFrom(s, i) ==
    The({IF j > Len(s) THEN SubSeq(s, i, Len(s))
         ELSE SubSeq(s, i, j - 1) \o " " \o CollapseFrom(s, RunEnd(s, j, WhiteSpace)) :
             j \in {FindChar(s, i, WhiteSpace)}})

\* re.sub(r'\s+', ' ', result).strip()
normalise_space(s) == Strip(CollapseFrom(s, 1), WhiteSpace)

\* steps 3 to 6 and the final normalisation, on the result p of step 2
translate_protected(p) ==
    normalise_space(restore(sov_reorder(post_rules(substitute_words(p.text, p.protected))),
                            p.protected))

\* BaselineTranslator.translate
translate(s) == translate_protected(protect(pre_rules(s)))

(***************************************************************************)
(* script_converter.py: ScriptConverter                                    *)
(*                                                                         *)
(* Devanagari text is written in ASCII: a Devanagari word is "~" followed  *)
(* by a Latin spelling of the word, so a character is Devanagari when it   *)
(* belongs to such a word.  The sentinel delimiters STX (\x02) and ETX     *)
(* (\x03) are written "{" and "}".                                         *)
(***************************************************************************)
STX == "{"
ETX == "}"
SentinelChars == {STX, ETX}
ConvPunct == {".", ",", "!", "?", ";", ":"}

\* re.search(r'[ऀ-ॿ]', text)
HasDevanagari(s) == Contains(s, "~")

\* _ROMAN_TO_DEVA of the word-level converter, in source order
ROMAN_TO_DEVA ==
    <<<<"ek", "~ek">>, <<"do", "~do">>, <<"teen", "~teen">>,
      <<"chaar", "~chaar">>, <<"paanch", "~paanch">>, <<"chhe", "~chhe">>,
      <<"saat", "~saat">>, <<"aath", "~aath">>, <<"nau", "~nau">>,
      <<"das", "~das">>, <<"shunya", "~shunya">>, <<"yeh", "~yeh">>,
      <<"voh", "~voh">>, <<"ye", "~ye">>, <<"ve", "~ve">>,
      <<"iske khud ka", "~iske ~khud ~ka">>, <<"khud ka", "~khud ~ka">>, <<"iske", "~iske">>,
      <<"is", "~is">>, <<"us", "~us">>, <<"in", "~in">>,
      <<"un", "~un">>, <<"ke saath", "~ke ~saath">>, <<"ke upar", "~ke ~upar">>,
      <<"jab tak", "~jab ~tak">>, <<"kabhi nahi", "~kabhi ~nahi">>, <<"mein", "~mein">>,
      <<"par", "~par">>, <<"ko", "~ko">>, <<"ka", "~ka">>,
      <<"se", "~se">>, <<"hai", "~hai">>, <<"hain", "~hain">>,
      <<"tha", "~tha">>, <<"the", "~the">>, <<"ho", "~ho">>,
      <<"gaya", "~gaya">>, <<"karta hai", "~karta ~hai">>, <<"karta tha", "~karta ~tha">>,
      <<"karo", "~karo">>, <<"kiya", "~kiya">>, <<"banata hai", "~banata ~hai">>,
      <<"upyog karta hai", "~upyog ~karta ~hai">>, <<"iterate karta hai", "iterate ~karta ~hai">>, <<"jaari rehta hai", "~jaari ~rehta ~hai">>,
      <<"ban jaata hai", "~ban ~jaata ~hai">>, <<"upyog karo", "~upyog ~karo">>, <<"upyog kiya", "~upyog ~kiya">>,
      <<"assign karo", "~assign ~karo">>, <<"assign kiya", "~assign ~kiya">>, <<"iterate karo", "iterate ~karo">>,
      <<"iterate kiya", "iterate ~kiya">>, <<"banao", "~banao">>, <<"banaya", "~banaya">>,
      <<"badhao", "~badhao">>, <<"badhaya", "~badhaya">>, <<"ghatao", "~ghatao">>,
      <<"return", "~return">>, <<"store", "~store">>, <<"call", "~call">>,
      <<"define", "~define">>, <<"declare", "~declare">>, <<"throw", "~throw">>,
      <<"run", "~run">>, <<"execute", "~execute">>, <<"har", "~har">>,
      <<"sabhi", "~sabhi">>, <<"kai", "~kai">>, <<"naya", "~naya">>,
      <<"wahi", "~wahi">>, <<"pehla", "~pehla">>, <<"aakhri", "~aakhri">>,
      <<"agla", "~agla">>, <<"pichla", "~pichla">>, <<"aur", "~aur">>,
      <<"ya", "~ya">>, <<"lekin", "~lekin">>, <<"phir", "~phir">>,
      <<"baad", "~baad">>, <<"pehle", "~pehle">>, <<"jab", "~jab">>,
      <<"nahi", "~nahi">>, <<"bhi", "~bhi">>, <<"sirf", "~sirf">>,
      <<"hamesha", "~hamesha">>, <<"naam", "~naam">>, <<"samay", "~samay">>,
      <<"tarika", "~tarika">>>>

\* sorted(items, key=lambda x: len(x[0]), reverse=True): longest key first,
\* equal lengths keep their order; KeyRank is the place of the i-th item
KeyRank(items, i) ==
    1 + Cardinality({j \in 1..Len(items) :
                        \/ Len(items[j][1]) > Len(items[i][1])
                        \/ Len(items[j][1]) = Len(items[i][1]) /\ j < i})
SortedByKeyLen(items) ==
    [r \in 1..Len(items) |-> items[The({i \in 1..Len(items) : KeyRank(items, i) = r})]]

\* the table in the order it is written in
ROMAN_UNSORTED == ROMAN_TO_DEVA

ROMAN_SORTED == SortedByKeyLen(ROMAN_TO_DEVA)

\* f'\x02{n}\x03'
SentinelKey(n) == STX \o Str(n) \o ETX

\* (?<![^\s\x02\x03]) at p: start of the text, or after whitespace or a
\* sentinel delimiter
BoundaryBefore(s, p) == p = 1 \/ Ch(s, p - 1) \in (WhiteSpace \cup SentinelChars)

\* (?![^\s\x02\x03.,!?;:]) after the character at e
TermBoundaryAfter(s, e) ==
    e >= Len(s) \/ Ch(s, e + 1) \in (WhiteSpace \cup SentinelChars \cup ConvPunct)

\* (?=[.,!?;:\s]|$|\x02) after the character at e
WordBoundaryAfter(s, e) ==
    e >= Len(s) \/ Ch(s, e + 1) \in (ConvPunct \cup WhiteSpace \cup {STX})

\* the start of the first match of a pass-1 term pattern at or after i
\* (low and lterm are the text and the term in lower case: IGNORECASE)
NextTerm(s, low, lterm, i) ==
    LeastOr({k \in i..Len(s) : /\ StartsAt(low, k, lterm)
                               /\ BoundaryBefore(s, k)
                               /\ TermBoundaryAfter(s, k + Len(lterm) - 1)}, 0)

\* pat.sub(lambda _, d=deva: stash(d), result) of pass 1 from index i on, n
\* sentinels being minted already: the text and the number of new sentinels
RECURSIVE StashFrom(_, _, _, _, _)
StashFrom(s, low, lterm, i, n) ==
    The({IF j = 0 THEN [text |-> SubSeq(s, i, Len(s)), count |-> 0]
         ELSE The({[text |-> SubSeq(s, i, j - 1) \o SentinelKey(n) \o r.text,
                    count |-> r.count + 1] :
                       r \in {StashFrom(s, low, lterm, j + Len(lterm), n + 1)}}) :
             j \in {NextTerm(s, low, lterm, i)}})

\* pass 1 over the sorted term map from its k-th entry; placeholders is the
\* dict of the sentinels as the list of its values in key order
RECURSIVE StashTerms(_, _, _, _)
StashTerms(sorted, k, s, placeholders) ==
    IF k > Len(sorted) THEN [text |-> s, placeholders |-> placeholders]
    ELSE The({StashTerms(sorted, k + 1, r.text,
                         placeholders \o [x \in 1..r.count |-> sorted[k][2]]) :
                  r \in {StashFrom(s, Lower(s), Lower(sorted[k][1]), 1, Len(placeholders))}})

\* pass 1: for term, deva in sorted(term_map.items(), key=len, reverse=True)
stash_terms(s, tm) == StashTerms(SortedByKeyLen(tm), 1, s, <<>>)

\* the start of the first match of a pass-2 word pattern at or after i
NextWord(s, low, roman, i) ==
    LeastOr({k \in i..Len(s) : /\ StartsAt(low, k, roman)
                               /\ BoundaryBefore(s, k)
                               /\ WordBoundaryAfter(s, k + Len(roman) - 1)}, 0)

\* pat.sub(deva, result) of pass 2 from index i on
RECURSIVE WordSubFrom(_, _, _, _, _)
WordSubFrom(s, low, roman, deva, i) ==
    The({IF j = 0 THEN SubSeq(s, i, Len(s))
         ELSE SubSeq(s, i, j - 1) \o deva \o WordSubFrom(s, low, roman, deva, j + Len(roman)) :
             j \in {NextWord(s, low, roman, i)}})

\* pass 2: for roman, deva in _ROMAN_SORTED, the entries lo..hi in order
RECURSIVE MapWords(_, _, _)
MapWords(s, lo, hi) ==
    IF lo > hi THEN s
    ELSE IF lo = hi
         THEN WordSubFrom(s, Lower(s), Lower(ROMAN_SORTED[lo][1]), ROMAN_SORTED[lo][2], 1)
         ELSE The({MapWords(x, (lo + hi) \div 2 + 1, hi) :
                       x \in {MapWords(s, lo, (lo + hi) \div 2)}})

map_words(s) == MapWords(s, 1, Len(ROMAN_SORTED))

\* pass 3: for key, deva in placeholders.items(): result.replace(key, deva)
RECURSIVE RestoreSentinels(_, _, _)
RestoreSentinels(s, placeholders, n) ==
    IF n >= Len(placeholders) THEN s
    ELSE RestoreSentinels(Replace(s, SentinelKey(n), placeholders[n + 1]), placeholders, n + 1)

restore_sentinels(s, placeholders) == RestoreSentinels(s, placeholders, 0)

\* passes 2 and 3 on the result p of pass 1
to_devanagari_stashed(p) == restore_sentinels(map_words(p.text), p.placeholders)

\* ScriptConverter._to_devanagari of the word-level converter
to_devanagari(s, tm) == to_devanagari_stashed(stash_terms(s, tm))

\* _require_indic(): the error it raises, "" if the package is installed
require_indic(available) == IF available THEN "" ELSE "ImportError"

\* The transliteration package is an external collaborator.  Its two
\* directions are modelled by their effect on scripts only: ITRANS to
\* Devanagari turns every run of Latin letters and digits into Devanagari
\* (digits become Devanagari digits), Devanagari to ITRANS turns every
\* Devanagari word into Latin letters; other characters pass through.
ItransChars == Chars(LowerLetters) \cup Chars(UpperLetters) \cup Chars(Digits)

RECURSIVE ItransFrom(_, _)
ItransFrom(s, i) ==
    The({IF j > Len(s) THEN SubSeq(s, i, Len(s))
         ELSE The({SubSeq(s, i, j - 1)
                       \o (IF j > 1 /\ Ch(s, j - 1) = "~" THEN "" ELSE "~")
                       \o SubSeq(s, j, e - 1) \o ItransFrom(s, e) :
                           e \in {RunEnd(s, j, ItransChars)}}) :
             j \in {FindChar(s, i, ItransChars)}})

\* _transliterate(text, sanscript.ITRANS, sanscript.DEVANAGARI)
roman_to_devanagari(s) == ItransFrom(s, 1)

\* _transliterate(text, sanscript.DEVANAGARI, sanscript.ITRANS)
devanagari_to_roman(s) == Replace(s, "~", "")

\* ScriptConverter._to_roman of the word-level converter: the text and the
\* error raised
to_roman(s, available) ==
    IF ~HasDevanagari(s) THEN [value |-> s, raised |-> ""]
    ELSE IF require_indic(available) # ""
         THEN [value |-> "", raised |-> require_indic(available)]
         ELSE [value |-> devanagari_to_roman(s), raised |-> ""]

\* ScriptConverter.convert_mixed_text of the word-level converter
convert_mixed_text(s, fmt, tm, available) ==
    IF fmt = "roman" THEN to_roman(s, available)
    ELSE IF fmt = "devanagari" THEN [value |-> to_devanagari(s, tm), raised |-> ""]
    ELSE [value |-> s, raised |-> ""]

\* passes 2 and 3 of _to_full_devanagari on the result p of pass 1
to_full_devanagari_stashed(p) ==
    restore_sentinels(roman_to_devanagari(p.text), p.placeholders)

\* ScriptConverter._to_full_devanagari of the ITRANS converter
to_full_devanagari(s, tm, available) ==
    IF require_indic(available) # ""
    THEN [value |-> "", raised |-> require_indic(available)]
    ELSE [value |-> to_full_devanagari_stashed(stash_terms(s, tm)), raised |-> ""]

\* ScriptConverter._transliterate_devanagari_spans of the ITRANS converter
transliterate_devanagari_spans(s, available) ==
    IF require_indic(available) # ""
    THEN [value |-> "", raised |-> require_indic(available)]
    ELSE [value |-> devanagari_to_roman(s), raised |-> ""]

\* ScriptConverter.convert_mixed_text of the ITRANS converter
convert_mixed_text_itrans(s, fmt, tm, available) ==
    IF fmt = "roman" THEN transliterate_devanagari_spans(s, available)
    ELSE IF fmt = "devanagari" THEN to_full_devanagari(s, tm, available)
    ELSE [value |-> s, raised |-> ""]

(***************************************************************************)
(* pipeline_py.py and pipeline.py: InglishtranslationPipeline.translate    *)
(***************************************************************************)
\* no result dictionary: translate has not returned
NoResult == [present |-> FALSE]

\* steps 2 to 5 of the baseline pipeline on the extracted terms tms:
\* guard_terms, translator.translate, unguard_terms (validate_constraints
\* only chooses whether a warning is printed)
BaselineSteps(txt, tms) ==
    The({The({[terms |-> tms, guarded |-> g, translated |-> t,
               final_text |-> unguard_terms(t)] :
                  t \in {translate(g)}}) :
             g \in {guard_terms(txt, tms)}})

\* the result dictionary of a pipeline
PipelineResult(txt, roman, deva, tms) ==
    [present |-> TRUE,
     original_english |-> txt,
     hinglish_roman |-> roman,
     hinglish_devanagari |-> deva,
     metadata |-> [terms_extracted |-> Len(tms),
                   technical_terms |-> [k \in 1..Len(tms) |-> tms[k].term]]]

\* step 6 of the baseline pipeline with output_format 'both': the two calls
\* of script_converter.convert_mixed_text, each without a term map
BaselineOutputs(txt, st, available) ==
    The({IF ro.raised # "" THEN [raised |-> ro.raised, result |-> NoResult]
         ELSE The({IF de.raised # "" THEN [raised |-> de.raised, result |-> NoResult]
                   ELSE [raised |-> "",
                         result |-> PipelineResult(txt, ro.value, de.value, st.terms)] :
                      de \in {convert_mixed_text_itrans(st.final_text, "devanagari", <<>>,
                                                        available)}}) :
             ro \in {convert_mixed_text_itrans(st.final_text, "roman", <<>>, available)}})

\* InglishtranslationPipeline.translate of pipeline_py.py, translator_type
\* 'baseline', on an extractor with the given trie, term set, patterns and
\* phonetic map: what it raises, or the dictionary it returns
baseline_translate(trie, singles, pats, dm, txt, available) ==
    The({IF r.err # "" THEN [raised |-> r.err, result |-> NoResult]
         ELSE BaselineOutputs(txt, BaselineSteps(txt, r.terms), available) :
             r \in {extract_terms(trie, singles, pats, dm, txt)}})

\* InglishtranslationPipeline.translate_batch: the loop over texts; the list
\* results is returned when no call of translate has raised
RECURSIVE translate_batch(_, _, _, _, _, _)
translate_batch(trie, singles, pats, dm, txts, available) ==
    IF txts = <<>> THEN [raised |-> "", results |-> <<>>]
    ELSE The({IF r.raised # "" THEN [raised |-> r.raised, results |-> <<>>]
              ELSE The({IF rest.raised # "" THEN rest
                        ELSE [raised |-> "", results |-> <<r.result>> \o rest.results] :
                           rest \in {translate_batch(trie, singles, pats, dm, Tail(txts),
                                                     available)}}) :
                  r \in {baseline_translate(trie, singles, pats, dm, Head(txts), available)}})

\* the metrics dictionary before evaluate_quality has returned one
NoMetrics == [present |-> FALSE]

\* the quotient a / b of two ints, kept as the pair of its operands
Ratio(a, b) == [num |-> a, den |-> b]

\* set(t[0].lower() for t in original_terms)
original_term_set(tms) == {Lower(tms[k].term) : k \in 1..Len(tms)}

\* sum(1 for term in original_term_set if term.lower() in translated.lower())
preserved_count(term_set, translation) ==
    Cardinality({term \in term_set : Contains(Lower(translation), Lower(term))})

\* InglishtranslationPipeline.evaluate_quality without a reference: what it
\* raises, or the metrics it returns (1.0 is the ratio 1 / 1)
evaluate_quality(trie, singles, pats, dm, original, translation) ==
    The({IF r.err # "" THEN [raised |-> r.err, metrics |-> NoMetrics, terms |-> <<>>]
         ELSE [raised |-> "",
               terms |-> r.terms,
               metrics |->
                   [present |-> TRUE,
                    terminology_preservation |->
                        IF r.terms # <<>>
                        THEN Ratio(preserved_count(original_term_set(r.terms), translation),
                                   Cardinality(original_term_set(r.terms)))
                        ELSE Ratio(1, 1),
                    length_ratio |->
                        Ratio(Len(Split(translation)), Max(Len(Split(original)), 1))]] :
             r \in {extract_terms(trie, singles, pats, dm, original)}})

\* the outcomes of LLMTranslator.translate: the openai package is missing,
\* no API key is set, the call raises, or the model answers
LLMFallbackStates == {"no_package", "no_key", "call_fails"}
LLMStates == LLMFallbackStates \cup {"responds"}

\* the answers of the model to a guarded text: the text itself or its
\* rule-based translation
LLMResponses(g) == {g, translate(g)}

\* LLMTranslator.translate
llm_translate(s, state, response) ==
    IF state \in LLMFallbackStates THEN translate(s) ELSE Strip(response, WhiteSpace)

\* translated[key] for a str translated and a str key: "string indices must
\* be integers"
StrGetItem(s, key) == [value |-> "", raised |-> "TypeError"]

\* the result dictionary of the LLM pipeline, built from translated['roman']
\* and translated['devanagari']
LLMOutputs(txt, t, tms) ==
    The({IF ro.raised # "" THEN [raised |-> ro.raised, result |-> NoResult]
         ELSE The({IF de.raised # "" THEN [raised |-> de.raised, result |-> NoResult]
                   ELSE [raised |-> "",
                         result |-> PipelineResult(txt, ro.value, de.value, tms)] :
                      de \in {StrGetItem(t, "devanagari")}}) :
             ro \in {StrGetItem(t, "roman")}})

(***************************************************************************)
(* Bounds of the span-resolution runs                                      *)
(***************************************************************************)
MaxSpans == 3
MaxPos == 4

SpanLabels == {"a"}
CandidateSpans ==
    {Span(t, a, b) : t \in SpanLabels, a \in 0..MaxPos, b \in 0..MaxPos}
SpanSet == {s \in CandidateSpans : s.start <= s.end}
SpanLists == UNION {[1..n -> SpanSet] : n \in 0..MaxSpans}

(***************************************************************************)
(* Values of the variables a run does not use                              *)
(***************************************************************************)
EmptyMap == [k \in {} |-> k]
NoFile == [exists |-> FALSE]
NoResolver == spans = <<>> /\ resolved = <<>>
NoFiles == glossary_file = NoFile /\ pattern_file = NoFile
NoExtractor ==
    /\ glossary = [terms |-> <<>>, compound_terms |-> <<>>]
    /\ patterns = <<>>
    /\ single_terms = {}
    /\ compound_trie = EmptyDict
    /\ deva_map = EmptyMap
NoRun == text = "" /\ terms = <<>> /\ guarded = "" /\ unguarded = ""
NoTranslation == translated = "" /\ valid = FALSE
NoConversion ==
    /\ term_map = <<>>
    /\ to_format = ""
    /\ indic_available = FALSE
    /\ converted = ""
NoPipeline ==
    /\ llm_state = "" /\ pipeline_result = NoResult /\ texts = <<>> /\ results = <<>>
    /\ metrics = NoMetrics
NoLater == NoTranslation /\ NoConversion /\ NoPipeline

(***************************************************************************)
(* Runs of resolve_overlapping_spans on a candidate list                   *)
(***************************************************************************)
InitResolve ==
    /\ pc = "resolve_input"
    /\ raised = ""
    /\ spans \in SpanLists
    /\ resolved = <<>>
    /\ NoFiles /\ NoExtractor /\ NoRun /\ NoLater

Resolve ==
    /\ pc = "resolve_input"
    /\ resolved' = resolve_overlapping_spans(spans)
    /\ pc' = "resolved"
    /\ UNCHANGED <<raised, spans, file_vars, extractor_vars, run_vars, later_vars>>

NextResolve == Resolve

SpecResolve == InitResolve /\ [][NextResolve]_vars

(***************************************************************************)
(* Inputs of the extractor runs                                            *)
(***************************************************************************)
MaxWords == 3

Entry(t, d) == [term |-> t, devanagari |-> d]
GlossaryFile(ts, cs) ==
    [exists |-> TRUE, domain |-> "programming", terms |-> ts, compound_terms |-> cs]
\* no file <domain>.yaml under data/glossaries, in neither base directory
MissingGlossary(domain) == [exists |-> FALSE, domain |-> domain]
PatternFile(ps) == [exists |-> TRUE, patterns |-> ps]
ClassPattern(cs, m) == [regex |-> "class", cls |-> cs, min |-> m]

\* the glossary of the compound-term shadowing scenario: "loop" and "for loop"
LoopGlossary ==
    GlossaryFile(<<Entry("loop", "~lup")>>, <<Entry("for loop", "~for ~lup")>>)

\* a glossary with a term that has no phonetic entry
XoGlossary ==
    GlossaryFile(<<Entry("xo", ""), Entry("loop", "~lup")>>, <<Entry("for loop", "~for ~lup")>>)

GlossaryFiles == {MissingGlossary("medical"), MissingGlossary("x"), LoopGlossary, XoGlossary}

PatternFiles ==
    {NoFile,
     PatternFile(<<ClassPattern({"o"}, 1)>>),
     PatternFile(<<[regex |-> "bad", cls |-> {}, min |-> 1], ClassPattern({"x"}, 0)>>)}

Vocab == {"for", "loop", "Loop.", "xo", "$"}
Separators == {" ", "  "}
Leads == {"", " "}

RECURSIVE WordsJoined(_)
WordsJoined(n) ==
    IF n = 0 THEN {""}
    ELSE IF n = 1 THEN Vocab
    ELSE {t \o sep \o w : t \in WordsJoined(n - 1), sep \in Separators, w \in Vocab}

\* texts with capitalised occurrences of glossary terms
CapitalisedTexts == {"For loop xo", "xo LOOP", "For Loop."}

Texts ==
    {lead \o t : lead \in Leads, t \in UNION {WordsJoined(n) : n \in 0..MaxWords}}
        \cup CapitalisedTexts

(***************************************************************************)
(* Runs of TermExtractor: construct, extract_terms, guard_terms,           *)
(* unguard_terms                                                           *)
(***************************************************************************)
InitExtract ==
    /\ pc = "start"
    /\ raised = ""
    /\ NoResolver /\ NoExtractor /\ NoLater
    /\ glossary_file \in GlossaryFiles
    /\ pattern_file \in PatternFiles
    /\ text \in Texts
    /\ terms = <<>> /\ guarded = "" /\ unguarded = ""

\* _PROJECT_ROOT
PROJECT_ROOT == "/project"

\* _resolve_data_path(f"{glossary_dir}/{domain}.yaml") when the file exists
\* under neither base: the canonical path _PROJECT_ROOT / relative
glossary_path(domain) == PROJECT_ROOT \o "/data/glossaries/" \o domain \o ".yaml"

\* a FileNotFoundError whose message leaves the path out
GlossaryNotFoundBare(domain) == "FileNotFoundError: Glossary not found"

\* load_glossary when the path does not exist: the exception, as its class
\* name and its message
GlossaryNotFound(domain) ==
    "FileNotFoundError: Glossary not found: " \o glossary_path(domain)

\* TermExtractor.__init__: load_glossary, load_patterns, _load_terms
Construct ==
    /\ pc = "start"
    /\ IF ~glossary_file.exists
       THEN /\ raised' = GlossaryNotFound(glossary_file.domain)
            /\ pc' = "failed"
            /\ UNCHANGED extractor_vars
       ELSE /\ glossary' = [terms |-> glossary_file.terms,
                            compound_terms |-> glossary_file.compound_terms]
            /\ patterns' = IF pattern_file.exists THEN pattern_file.patterns ELSE <<>>
            /\ single_terms' = {Lower(glossary_file.terms[k].term) :
                                    k \in 1..Len(glossary_file.terms)}
            /\ compound_trie' = BuildTrie(glossary_file.compound_terms, EmptyDict)
            /\ deva_map' = BuildDevaMap(glossary_file.terms \o glossary_file.compound_terms,
                                        EmptyMap)
            /\ pc' = "constructed"
            /\ UNCHANGED raised
    /\ UNCHANGED <<resolver_vars, file_vars, run_vars, later_vars>>

\* terms = extract_terms(text)
ExtractTerms ==
    /\ pc = "constructed"
    /\ LET r == extract_terms(compound_trie, single_terms, patterns, deva_map, text)
       IN  IF r.err # ""
           THEN raised' = r.err /\ pc' = "failed" /\ UNCHANGED terms
           ELSE terms' = r.terms /\ pc' = "extracted" /\ UNCHANGED raised
    /\ UNCHANGED <<resolver_vars, file_vars, extractor_vars, text, guarded, unguarded, later_vars>>

\* guarded = guard_terms(text, terms)
GuardTerms ==
    /\ pc = "extracted"
    /\ guarded' = guard_terms(text, terms)
    /\ pc' = "guarded"
    /\ UNCHANGED <<raised, resolver_vars, file_vars, extractor_vars, text, terms, unguarded,
                   later_vars>>

\* unguard_terms(guarded)
UnguardTerms ==
    /\ pc = "guarded"
    /\ unguarded' = unguard_terms(guarded)
    /\ pc' = "unguarded"
    /\ UNCHANGED <<raised, resolver_vars, file_vars, extractor_vars, text, terms, guarded,
                   later_vars>>

NextExtract == Construct \/ ExtractTerms \/ GuardTerms \/ UnguardTerms

SpecExtract == InitExtract /\ [][NextExtract]_vars

(***************************************************************************)
(* Runs of BaselineTranslator.translate on a guarded text                  *)
(***************************************************************************)
MaxTokens == 3

\* words, guarded terms (one with a run of two blanks inside, as guard_terms
\* writes it for a term that spans them) and a placeholder-like word
GuardedVocab ==
    {"the", "x", "has", "been", "of", "runs", "returns",
     "[a]", "[for  loop]", "__P0__"}
EndPunct == {"", "."}

RECURSIVE TokensJoined(_)
TokensJoined(n) ==
    IF n = 0 THEN {""}
    ELSE IF n = 1 THEN GuardedVocab
    ELSE {t \o " " \o w : t \in TokensJoined(n - 1), w \in GuardedVocab}

\* sentences with several verbs that word substitution turns into listed
\* SOV verb phrases
SovTexts ==
    {"x returns x contains x.", "x contains [a] returns x", "x runs x runs [a]!",
     "runs x returns [a] x", "x runs returns", "[a] runs .", "x returns [a] runs",
     "x run karta hai [a] stores x"}

\* sentences with a number word and with a term that is an English word
NumberTexts ==
    {"[a] of [class]", "[class] has four [a].", "the four x.", "four of the [class] runs",
     "[a] runs [class]."}

\* sentences with the perfect tense 'has been'
PerfectTexts ==
    {"x HAS Been [a].", "the x has  been [a] x", "[a] has been four x!", "x has beenx [a]",
     "x has been. [a]"}

GuardedTexts ==
    {t \o e : t \in UNION {TokensJoined(n) : n \in 0..MaxTokens}, e \in EndPunct}
        \cup SovTexts \cup PerfectTexts \cup NumberTexts

InitTranslate ==
    /\ pc = "guarded_input"
    /\ raised = ""
    /\ NoResolver /\ NoFiles /\ NoExtractor
    /\ text = "" /\ terms = <<>> /\ unguarded = ""
    /\ guarded \in GuardedTexts
    /\ NoLater

\* translated = BaselineTranslator().translate(guarded)
Translate ==
    /\ pc = "guarded_input"
    /\ translated' = translate(guarded)
    /\ pc' = "translated"
    /\ UNCHANGED <<raised, valid, resolver_vars, file_vars, extractor_vars, run_vars,
                   converter_vars, pipeline_vars>>

NextTranslate == Translate

SpecTranslate == InitTranslate /\ [][NextTranslate]_vars

(***************************************************************************)
(* Runs of ScriptConverter.convert_mixed_text, with the word-level         *)
(* converter and with the ITRANS converter                                 *)
(***************************************************************************)
MaxConvWords == 2

\* English and Roman Hindi words, a digit, and a Devanagari word as an LLM
\* writes it; none holds a sentinel delimiter
ConvVocab == {"for", "loop", "Loop", "0", "karta", "hai", "~lup"}

RECURSIVE ConvWordsJoined(_)
ConvWordsJoined(n) ==
    IF n = 0 THEN {""}
    ELSE IF n = 1 THEN ConvVocab
    ELSE {t \o " " \o w : t \in ConvWordsJoined(n - 1), w \in ConvVocab}

\* texts with table entries that hold other entries as sub-phrases
SubPhraseTexts ==
    {"upyog karta hai", "loop upyog karta hai.", "Karta Hai hai", "(karta hai karta hai",
     "iske khud ka naam", "khud ka loop karta tha", "for loop iterate karta hai, hai"}

ConvTexts ==
    {t \o e : t \in UNION {ConvWordsJoined(n) : n \in 0..MaxConvWords}, e \in EndPunct}
        \cup SubPhraseTexts

\* term maps ({term: phonetic Devanagari}) as lists of pairs in insertion
\* order: the glossary pair "loop" / "for loop", and a numeric term
LoopTermMap == << <<"loop", "~lup">>, <<"for loop", "~for ~lup">> >>
DigitTermMap == << <<"loop", "~lup">>, <<"0", "~shunya">> >>
TermMaps == {<<>>, LoopTermMap, DigitTermMap}

Formats == {"roman", "devanagari"}

InitConvert ==
    /\ pc = "convert_input"
    /\ raised = ""
    /\ NoResolver /\ NoFiles /\ NoExtractor /\ NoRun /\ NoPipeline
    /\ translated \in ConvTexts
    /\ valid = FALSE
    /\ term_map \in TermMaps
    /\ to_format \in Formats
    /\ indic_available \in BOOLEAN
    /\ converted = ""

\* converted = ScriptConverter().convert_mixed_text(translated, to_format,
\* term_map) with the word-level converter
ConvertMixedText ==
    /\ pc = "convert_input"
    /\ \E r \in {convert_mixed_text(translated, to_format, term_map, indic_available)} :
           /\ converted' = r.value
           /\ raised' = r.raised
    /\ pc' = "word_level_done"
    /\ UNCHANGED <<resolver_vars, file_vars, extractor_vars, run_vars, translator_vars,
                   term_map, to_format, indic_available, pipeline_vars>>

\* the same call with the ITRANS converter
ConvertMixedTextItrans ==
    /\ pc = "convert_input"
    /\ \E r \in {convert_mixed_text_itrans(translated, to_format, term_map,
                                           indic_available)} :
           /\ converted' = r.value
           /\ raised' = r.raised
    /\ pc' = "itrans_done"
    /\ UNCHANGED <<resolver_vars, file_vars, extractor_vars, run_vars, translator_vars,
                   term_map, to_format, indic_available, pipeline_vars>>

NextConvert == ConvertMixedText \/ ConvertMixedTextItrans

SpecConvert == InitConvert /\ [][NextConvert]_vars

(***************************************************************************)
(* Runs of InglishtranslationPipeline: construction, then translate of the *)
(* baseline pipeline (pipeline_py.py) or of the LLM pipeline (pipeline.py) *)
(***************************************************************************)
PipelineTexts == {"", "loop", "the loop runs", "For loop.", "xo has the  loop"}

InitPipeline ==
    /\ pc = "start"
    /\ raised = ""
    /\ NoResolver /\ NoExtractor /\ NoTranslation
    /\ glossary_file \in GlossaryFiles
    /\ pattern_file \in PatternFiles
    /\ text \in PipelineTexts
    /\ terms = <<>> /\ guarded = "" /\ unguarded = ""
    /\ term_map = <<>> /\ to_format = "" /\ converted = ""
    /\ indic_available \in BOOLEAN
    /\ llm_state \in LLMStates
    /\ pipeline_result = NoResult
    /\ texts = <<>> /\ results = <<>> /\ metrics = NoMetrics

\* pipeline_result = InglishtranslationPipeline(config).translate(text) of
\* pipeline_py.py, translator_type 'baseline'
BaselineTranslate ==
    /\ pc = "constructed"
    /\ \E r \in {extract_terms(compound_trie, single_terms, patterns, deva_map, text)} :
           IF r.err # ""
           THEN /\ raised' = r.err
                /\ pc' = "baseline_failed"
                /\ UNCHANGED <<terms, guarded, unguarded, translated, valid,
                               pipeline_result>>
           ELSE \E st \in {BaselineSteps(text, r.terms)} :
                \E out \in {BaselineOutputs(text, st, indic_available)} :
                    /\ terms' = st.terms
                    /\ guarded' = st.guarded
                    /\ translated' = st.translated
                    /\ valid' = validate_constraints(st.guarded, st.translated)
                    /\ unguarded' = st.final_text
                    /\ raised' = out.raised
                    /\ pipeline_result' = out.result
                    /\ pc' = IF out.raised = "" THEN "baseline_done" ELSE "baseline_failed"
    /\ UNCHANGED <<resolver_vars, file_vars, extractor_vars, text, converter_vars,
                   llm_state, texts, results, metrics>>

\* pipeline_result = InglishtranslationPipeline(config).translate(text) of
\* pipeline.py
LLMTranslate ==
    /\ pc = "constructed"
    /\ \E r \in {extract_terms(compound_trie, single_terms, patterns, deva_map, text)} :
           IF r.err # ""
           THEN /\ raised' = r.err
                /\ pc' = "llm_failed"
                /\ UNCHANGED <<terms, guarded, translated, pipeline_result>>
           ELSE \E g \in {guard_terms(text, r.terms)} :
                \E response \in LLMResponses(g) :
                \E t \in {llm_translate(g, llm_state, response)} :
                \E out \in {LLMOutputs(text, t, r.terms)} :
                    /\ terms' = r.terms
                    /\ guarded' = g
                    /\ translated' = t
                    /\ raised' = out.raised
                    /\ pipeline_result' = out.result
                    /\ pc' = IF out.raised = "" THEN "llm_done" ELSE "llm_failed"
    /\ UNCHANGED <<resolver_vars, file_vars, extractor_vars, text, unguarded, valid,
                   converter_vars, llm_state, texts, results, metrics>>

NextPipeline == Construct \/ BaselineTranslate \/ LLMTranslate

SpecPipeline == InitPipeline /\ [][NextPipeline]_vars

(***************************************************************************)
(* Runs of InglishtranslationPipeline.translate_batch (pipeline_py.py)     *)
(***************************************************************************)
MaxBatch == 2

BatchTexts == {"loop", "the loop runs", "for loop $"}

InitBatch ==
    /\ pc = "start"
    /\ raised = ""
    /\ NoResolver /\ NoExtractor /\ NoRun /\ NoTranslation
    /\ glossary_file = LoopGlossary
    /\ pattern_file \in PatternFiles
    /\ term_map = <<>> /\ to_format = "" /\ converted = ""
    /\ indic_available \in BOOLEAN
    /\ llm_state = ""
    /\ pipeline_result = NoResult
    /\ texts \in UNION {[1..n -> BatchTexts] : n \in 0..MaxBatch}
    /\ results = <<>>
    /\ metrics = NoMetrics

\* results = pipeline.translate_batch(texts)
TranslateBatch ==
    /\ pc = "constructed"
    /\ \E b \in {translate_batch(compound_trie, single_terms, patterns, deva_map, texts,
                                 indic_available)} :
           /\ raised' = b.raised
           /\ results' = b.results
           /\ pc' = IF b.raised = "" THEN "batch_done" ELSE "batch_failed"
    /\ UNCHANGED <<resolver_vars, file_vars, extractor_vars, run_vars, translator_vars,
                   converter_vars, llm_state, pipeline_result, texts, metrics>>

NextBatch == Construct \/ TranslateBatch

SpecBatch == InitBatch /\ [][NextBatch]_vars

(***************************************************************************)
(* Runs of InglishtranslationPipeline.evaluate_quality (pipeline_py.py)    *)
(***************************************************************************)
MaxQualityWords == 2

QualityOriginals ==
    {"", " ", "loop", "Loop xo", "loop loop xo", "For loop.", "for loop $", "the xo  loop"}

QualityVocab == {"loop", "LOOP", "xo", "hai"}

RECURSIVE QualityWordsJoined(_)
QualityWordsJoined(n) ==
    IF n = 0 THEN {""}
    ELSE IF n = 1 THEN QualityVocab
    ELSE {t \o " " \o w : t \in QualityWordsJoined(n - 1), w \in QualityVocab}

QualityTranslations == UNION {QualityWordsJoined(n) : n \in 0..MaxQualityWords}

InitQuality ==
    /\ pc = "start"
    /\ raised = ""
    /\ NoResolver /\ NoExtractor /\ NoConversion
    /\ glossary_file \in {LoopGlossary, XoGlossary}
    /\ pattern_file \in PatternFiles
    /\ text \in QualityOriginals
    /\ terms = <<>> /\ guarded = "" /\ unguarded = ""
    /\ translated \in QualityTranslations
    /\ valid = FALSE
    /\ NoPipeline

\* metrics = pipeline.evaluate_quality(text, translated)
EvaluateQuality ==
    /\ pc = "constructed"
    /\ \E q \in {evaluate_quality(compound_trie, single_terms, patterns, deva_map, text,
                                  translated)} :
           /\ raised' = q.raised
           /\ terms' = q.terms
           /\ metrics' = q.metrics
           /\ pc' = IF q.raised = "" THEN "evaluated" ELSE "evaluate_failed"
    /\ UNCHANGED <<resolver_vars, file_vars, extractor_vars, text, guarded, unguarded,
                   translator_vars, converter_vars, llm_state, pipeline_result, texts,
                   results>>

NextQuality == Construct \/ EvaluateQuality

SpecQuality == InitQuality /\ [][NextQuality]_vars

(***************************************************************************)
(* Runs of TermExtractor._extract_compound_terms on a text                 *)
(***************************************************************************)
MaxCompoundWords == 3

\* a glossary in which a compound term is the prefix of a longer one, with a
\* term in upper case, a term of one word and a term listed twice
PrefixGlossary ==
    GlossaryFile(<<Entry("loop", "~lup")>>,
                 <<Entry("for loop", "~for ~lup"), Entry("For Loop xo", ""),
                   Entry("xo", ""), Entry("for loop", "")>>)

CompoundVocab == {"for", "loop", "Loop.", "xo", "$"}

RECURSIVE CompoundWordsJoined(_)
CompoundWordsJoined(n) ==
    IF n = 0 THEN {""}
    ELSE IF n = 1 THEN CompoundVocab
    ELSE {t \o " " \o w : t \in CompoundWordsJoined(n - 1), w \in CompoundVocab}

\* texts with leading whitespace, runs of whitespace and punctuation
SpacedTexts == {" For  LOOP xo", "(for) loop, xo!", "xo  for loop xo for"}

CompoundTexts ==
    UNION {CompoundWordsJoined(n) : n \in 0..MaxCompoundWords} \cup SpacedTexts

InitCompound ==
    /\ pc = "start"
    /\ raised = ""
    /\ NoResolver /\ NoExtractor /\ NoLater
    /\ glossary_file \in {LoopGlossary, PrefixGlossary}
    /\ pattern_file = NoFile
    /\ text \in CompoundTexts
    /\ terms = <<>> /\ guarded = "" /\ unguarded = ""

\* spans = self._extract_compound_terms(text)
ExtractCompoundTerms ==
    /\ pc = "constructed"
    /\ LET r == extract_compound_terms(compound_trie, text)
       IN  IF r.err # ""
           THEN raised' = r.err /\ pc' = "compound_failed" /\ UNCHANGED spans
           ELSE spans' = r.matches /\ pc' = "candidates" /\ UNCHANGED raised
    /\ UNCHANGED <<resolved, file_vars, extractor_vars, run_vars, later_vars>>

NextCompound == Construct \/ ExtractCompoundTerms

SpecCompound == InitCompound /\ [][NextCompound]_vars

(***************************************************************************)
(* Runs of BaseTranslator.validate_constraints on a guarded text and a     *)
(* translation of it                                                       *)
(***************************************************************************)
MaxValidateTokens == 2

ValidateVocab == {"[a]", "[ab]", "[b]", "x"}

RECURSIVE ValidateTokensJoined(_)
ValidateTokensJoined(n) ==
    IF n = 0 THEN {""}
    ELSE IF n = 1 THEN ValidateVocab
    ELSE {t \o " " \o w : t \in ValidateTokensJoined(n - 1), w \in ValidateVocab}

ValidateTexts == UNION {ValidateTokensJoined(n) : n \in 0..MaxValidateTokens}

InitValidate ==
    /\ pc = "validate_input"
    /\ raised = ""
    /\ NoResolver /\ NoFiles /\ NoExtractor
    /\ text = "" /\ terms = <<>> /\ unguarded = ""
    /\ guarded \in ValidateTexts
    /\ translated \in ValidateTexts
    /\ valid = FALSE
    /\ NoConversion /\ NoPipeline

\* valid = translator.validate_constraints(guarded, translated)
ValidateConstraints ==
    /\ pc = "validate_input"
    /\ valid' = validate_constraints(guarded, translated)
    /\ pc' = "validated"
    /\ UNCHANGED <<raised, resolver_vars, file_vars, extractor_vars, run_vars, translated,
                   converter_vars, pipeline_vars>>

NextValidate == ValidateConstraints

SpecValidate == InitValidate /\ [][NextValidate]_vars

(***************************************************************************)
(* Runs of TermExtractor.unguard_terms on its own result                   *)
(***************************************************************************)
MaxUnguardLen == 6

UnguardAlphabet == {"[", "]", "a"}

RECURSIVE UnguardStrings(_)
UnguardStrings(n) ==
    IF n = 0 THEN {""}
    ELSE {s \o c : s \in UnguardStrings(n - 1), c \in UnguardAlphabet}

InitUnguard ==
    /\ pc = "unguard_input"
    /\ raised = ""
    /\ NoResolver /\ NoFiles /\ NoExtractor /\ NoLater
    /\ text \in UNION {UnguardStrings(n) : n \in 0..MaxUnguardLen}
    /\ terms = <<>> /\ guarded = "" /\ unguarded = ""

\* guarded = unguard_terms(text)
UnguardOnce ==
    /\ pc = "unguard_input"
    /\ guarded' = unguard_terms(text)
    /\ pc' = "unguarded_once"
    /\ UNCHANGED <<raised, resolver_vars, file_vars, extractor_vars, text, terms, unguarded,
                   later_vars>>

\* unguarded = unguard_terms(guarded)
UnguardAgain ==
    /\ pc = "unguarded_once"
    /\ unguarded' = unguard_terms(guarded)
    /\ pc' = "unguarded_twice"
    /\ UNCHANGED <<raised, resolver_vars, file_vars, extractor_vars, text, terms, guarded,
                   later_vars>>

NextUnguard == UnguardOnce \/ UnguardAgain

SpecUnguard == InitUnguard /\ [][NextUnguard]_vars

(***************************************************************************)
(* Properties of resolve_overlapping_spans                                 *)
(***************************************************************************)
SpanLen(s) == s.end - s.start
\* two spans overlap when each starts before the other ends
SpansOverlap(a, b) == a.start < b.end /\ b.start < a.end
InResolved(s) == \E k \in 1..Len(resolved) : resolved[k] = s

\* C2: the list returned by resolve_overlapping_spans is sorted by start
\* ascending and holds no two spans that overlap (a shared boundary is not
\* an overlap).
C2_SortedNonOverlapping ==
    pc = "resolved" =>
        \A i, j \in 1..Len(resolved) :
            i < j => /\ resolved[i].start <= resolved[j].start
                     /\ ~SpansOverlap(resolved[i], resolved[j])

\* C2 witness: overlapping candidates were given, one was discarded and at
\* least two spans were returned.
C2_Witness ==
    /\ pc = "resolved"
    /\ Len(resolved) >= 2
    /\ Len(resolved) < Len(spans)
    /\ \E i, j \in 1..Len(spans) : i # j /\ SpansOverlap(spans[i], spans[j])

\* C3 as stated: of any two candidates that overlap each other and differ in
\* length, the longer one is in the output.
C3_LongerAlwaysKept ==
    pc = "resolved" =>
        \A i, j \in 1..Len(spans) :
            (SpansOverlap(spans[i], spans[j]) /\ SpanLen(spans[i]) > SpanLen(spans[j]))
                => InResolved(spans[i])

\* a kept span that comes before s in the (start, longest first) order and
\* overlaps it
BeatenBy(s) ==
    \E k \in 1..Len(resolved) :
        /\ resolved[k] # s
        /\ SpansOverlap(resolved[k], s)
        /\ \/ resolved[k].start < s.start
           \/ resolved[k].start = s.start /\ SpanLen(resolved[k]) >= SpanLen(s)

\* C3 amended: two overlapping candidates of different lengths are never both
\* kept; the longer one is kept when it starts at or before the shorter one,
\* unless a kept span that starts before it (or at the same place and is not
\* shorter) overlaps it.  A longer span that starts after the shorter one
\* gets no such guarantee (leftmost first).
C3_LeftmostLongestKept ==
    pc = "resolved" =>
        \A i, j \in 1..Len(spans) :
            (SpansOverlap(spans[i], spans[j]) /\ SpanLen(spans[i]) > SpanLen(spans[j]))
                => /\ ~(InResolved(spans[i]) /\ InResolved(spans[j]))
                   /\ (spans[i].start <= spans[j].start /\ ~BeatenBy(spans[i]))
                          => InResolved(spans[i])

\* C3 witness: a longer and a shorter candidate share their start; the longer
\* is returned and the shorter is not.
C3_Witness ==
    /\ pc = "resolved"
    /\ \E i, j \in 1..Len(spans) :
          /\ SpansOverlap(spans[i], spans[j])
          /\ SpanLen(spans[i]) > SpanLen(spans[j])
          /\ spans[i].start = spans[j].start
          /\ i > j
          /\ InResolved(spans[i])
          /\ ~InResolved(spans[j])

(***************************************************************************)
(* Properties of TermExtractor                                             *)
(***************************************************************************)
HasBracket(s) == \E i \in 1..Len(s) : Ch(s, i) \in {"[", "]"}

\* C1: for a text without '[' or ']' and any glossary / pattern
\* configuration, unguard_terms(guard_terms(text, extract_terms(text)))
\* equals text.
C1_GuardUnguardRoundTrip ==
    (pc = "unguarded" /\ ~HasBracket(text)) => unguarded = text

\* The tokens of a text with the offsets they really have in it:
\* [word, start, end], 0-based and half-open.
RECURSIVE TokensFrom(_, _, _, _)
TokensFrom(s, i, word, start) ==
    LET flush == IF word = "" THEN <<>>
                 ELSE <<[word |-> word, start |-> start, end |-> start + Len(word)]>>
    IN  IF i > Len(s) THEN flush
        ELSE IF Ch(s, i) \in WhiteSpace THEN flush \o TokensFrom(s, i + 1, "", i)
        ELSE TokensFrom(s, i + 1, word \o Ch(s, i), start)
Tokens(s) == TokensFrom(s, 1, "", 0)

HasTermAt(a, b) == \E k \in 1..Len(terms) : terms[k].start = a /\ terms[k].end = b

LoopGlossaryOnly ==
    /\ glossary_file = LoopGlossary
    /\ patterns = <<>>

\* C10: with "loop" and "for loop" the only glossary entries, every
\* occurrence of the token sequence "for loop" in the text is returned by
\* extract_terms as one span covering both words, and the "loop" in it is
\* not returned as a span of its own.
C10_ForLoopOneSpan ==
    (pc = "extracted" /\ LoopGlossaryOnly) =>
        LET toks == Tokens(text)
        IN  \A i \in 1..(Len(toks) - 1) :
                (Clean(toks[i].word) = "for" /\ Clean(toks[i + 1].word) = "loop")
                    => /\ HasTermAt(toks[i].start, toks[i + 1].end)
                       /\ ~HasTermAt(toks[i + 1].start, toks[i + 1].end)

\* C10 restricted to texts whose tokens are separated by single spaces and
\* that do not start with whitespace (the offsets the scan computes are then
\* the real ones)
SingleSpaced(s) == Join(Split(s), " ") = s
Aux_C10_SingleSpaced == SingleSpaced(text) => C10_ForLoopOneSpan

\* C1 restricted to runs in which no returned term is empty
Aux_C1_NonEmptyTerms ==
    (\A k \in 1..Len(terms) : terms[k].start < terms[k].end) => C1_GuardUnguardRoundTrip

(***************************************************************************)
(* Properties of BaselineTranslator                                        *)
(***************************************************************************)
\* C4: the content of every bracketed term of the guarded text given to
\* BaselineTranslator.translate appears character for character in the
\* translated text.
C4_TermsVerbatim ==
    pc = "translated" =>
        \A k \in 1..Len(bracketed_terms(guarded)) :
            Contains(translated, bracketed_terms(guarded)[k])

\* every bracketed term whose content holds no run of whitespace other than
\* a single blank, in a text without placeholder-like words, appears
\* character for character in the translated text
Aux_C4_SingleSpacedTerms ==
    (pc = "translated" /\ ~Contains(guarded, "__P")) =>
        \A k \in 1..Len(bracketed_terms(guarded)) :
            LET t == bracketed_terms(guarded)[k]
            IN  CollapseFrom(t, 1) = t => Contains(translated, t)

(***************************************************************************)
(* Properties of ScriptConverter                                           *)
(***************************************************************************)
HasSentinel(s) == Contains(s, STX) \/ Contains(s, ETX)

\* C5: in the three-pass Roman-to-Devanagari conversion of a text that holds
\* no sentinel delimiter, no sentinel minted in pass 1 is matched or altered
\* by a later term pattern or by pass 2, so pass 3 replaces every sentinel
\* and the output holds no sentinel delimiter
C5_NoSentinelInOutput ==
    (pc = "word_level_done" /\ to_format = "devanagari" /\ ~HasSentinel(translated))
        => ~HasSentinel(converted)

\* C6: every case-insensitive whole-word occurrence of a term of the term
\* map is rendered as exactly that term's phonetic string, a longer term
\* winning over a term inside it: a text that is one occurrence of a map
\* term converts to that term's phonetic string
C6_TermRenderedAsPhonetic ==
    (pc = "word_level_done" /\ to_format = "devanagari")
        => \A k \in 1..Len(term_map) :
               Lower(translated) = Lower(term_map[k][1]) => converted = term_map[k][2]

\* C7: the missing-package error is raised only by a Devanagari-to-Roman
\* conversion of a text that holds a Devanagari character; Roman-to-Devanagari
\* conversion never raises it and Devanagari-to-Roman conversion of a text
\* without Devanagari returns the text unchanged
C7_ImportErrorOnlyForDevanagariInput ==
    /\ raised = "ImportError" => (to_format = "roman" /\ HasDevanagari(translated))
    /\ (pc \in {"word_level_done", "itrans_done"} /\ to_format = "roman"
            /\ ~HasDevanagari(translated)) => converted = translated

(***************************************************************************)
(* Properties of InglishtranslationPipeline                                *)
(***************************************************************************)
\* C8: when the LLM translator cannot be used (package missing, no API key,
\* or the call fails), translate of the LLM pipeline does not raise: the
\* translator falls back to the rule-based baseline and the pipeline returns
\* a complete result record
C8_LLMFallbackReturnsResult ==
    (pc \in {"llm_done", "llm_failed"} /\ llm_state \in LLMFallbackStates)
        => /\ raised = ""
           /\ pipeline_result.present
           /\ pipeline_result.hinglish_roman = unguard_terms(translate(guarded))

\* C9: for the empty string no stage raises and each yields an empty result:
\* no terms are extracted, the guarded text and the translation are '', and
\* the Roman and Devanagari outputs of the baseline pipeline are both ''
C9_EmptyInputEmptyOutput ==
    (pc \in {"baseline_done", "baseline_failed"} /\ text = "")
        => /\ raised = ""
           /\ terms = <<>>
           /\ guarded = ""
           /\ translated = ""
           /\ pipeline_result.present
           /\ pipeline_result.hinglish_roman = ""
           /\ pipeline_result.hinglish_devanagari = ""
           /\ pipeline_result.metadata.terms_extracted = 0

\* C9 holds when the transliteration package is installed and no pattern
\* matches the empty string
Aux_C9_PackageInstalled ==
    (indic_available /\ \A k \in 1..Len(patterns) : patterns[k].min > 0)
        => C9_EmptyInputEmptyOutput

(***************************************************************************)
(* Properties of the grammar rules of BaselineTranslator                   *)
(***************************************************************************)
EndsWith(s, suffix) ==
    Len(suffix) <= Len(s) /\ SubSeq(s, Len(s) - Len(suffix) + 1, Len(s)) = suffix

\* the index after the word (\w+) or bracketed term that starts at i, i if
\* neither starts there
TermOrWordEnd(s, i) ==
    IF i > Len(s) THEN i
    ELSE IF Ch(s, i) = "["
         THEN (IF BracketEnd(s, i) # 0 THEN BracketEnd(s, i) + 1 ELSE i)
         ELSE RunEnd(s, i, WordChars)

\* s from index i on is a non-empty sequence of words or bracketed terms
\* with one blank between them
RECURSIVE IsTermSeqFrom(_, _)
IsTermSeqFrom(s, i) ==
    \E e \in {TermOrWordEnd(s, i)} :
        /\ e > i
        /\ \/ e = Len(s) + 1
           \/ e <= Len(s) /\ Ch(s, e) = " " /\ IsTermSeqFrom(s, e + 1)
IsTermSeq(s) == IsTermSeqFrom(s, 1)

\* the words and bracketed terms of such a sequence
RECURSIVE TermSeqTokensFrom(_, _)
TermSeqTokensFrom(s, i) ==
    IF i > Len(s) THEN <<>>
    ELSE The({<<SubSeq(s, i, e - 1)>> \o TermSeqTokensFrom(s, e + 1) :
                  e \in {TermOrWordEnd(s, i)}})
TermSeqTokens(s) == TermSeqTokensFrom(s, 1)

\* s holds no listed SOV verb phrase and no word that word substitution
\* turns into one
SovVerbSet == {SOV_VERB_LIST[k] : k \in 1..Len(SOV_VERB_LIST)}
BecomesSovVerb(w) ==
    Lower(w) \in DOMAIN word_map /\ word_map[Lower(w)] \in SovVerbSet
NoSovVerb(s) ==
    /\ \A v \in SovVerbSet : ~Contains(s, v)
    /\ \A k \in 1..Len(TermSeqTokens(s)) : ~BecomesSovVerb(TermSeqTokens(s)[k])

\* the index at which the trailing run of '.', '!' and '?' of g starts
TrailingPunctStart(g) ==
    MinOf({k \in 1..(Len(g) + 1) : \A j \in k..Len(g) : Ch(g, j) \in {".", "!", "?"}})

\* the readings of g as '<Subject> has <Object><punct>': Subject (read up to
\* the first 'has') and Object are sequences of words or bracketed terms,
\* Object does not begin with 'been', neither holds an SOV verb
PossessionForms(g) ==
    {f \in {[subject |-> SubSeq(g, 1, i - 1),
             object |-> SubSeq(g, i + 5, TrailingPunctStart(g) - 1),
             punct |-> SubSeq(g, TrailingPunctStart(g), Len(g))] :
                i \in {j \in 1..Len(g) : StartsAt(g, j, " has ")}} :
        /\ IsTermSeq(f.subject) /\ IsTermSeq(f.object)
        /\ \A k \in 1..Len(TermSeqTokens(f.subject)) :
               Lower(TermSeqTokens(f.subject)[k]) # "has"
        /\ Lower(TermSeqTokens(f.object)[1]) # "been"
        /\ NoSovVerb(f.subject) /\ NoSovVerb(f.object)}

\* the possession rewrite of the reading f of g and its effect on the output t
PossessionRewritten(g, t, f) ==
    /\ pre_rules(g) = f.subject \o " mein " \o f.object \o " hain" \o f.punct
    /\ EndsWith(t, "hain" \o f.punct)
    /\ \E j \in 1..Len(t) :
           /\ StartsAt(t, j, "mein")
           /\ bracketed_terms(SubSeq(t, 1, j - 1)) = bracketed_terms(f.subject)
           /\ bracketed_terms(SubSeq(t, j + 4, Len(t))) = bracketed_terms(f.object)

\* C11: a guarded sentence '<Subject> has <Object><punct>' (Subject and
\* Object non-empty sequences of words or bracketed terms, Object not
\* beginning with 'been', no SOV verb in either, punct a run of '.', '!',
\* '?') is rewritten before word substitution to '<Subject> mein <Object>
\* hain<punct>', and the output has the subject's terms before 'mein', the
\* object's terms after it, and ends with 'hain<punct>'
C11_PossessionRewrite ==
    pc = "translated" =>
        \A f \in PossessionForms(guarded) : PossessionRewritten(guarded, translated, f)

\* C11 for sentences whose bracketed terms hold no run of whitespace other
\* than a single blank and that hold no placeholder-like word
Aux_C11_PlainTerms ==
    (~Contains(guarded, "__P") /\ ~Contains(guarded, "  ")) => C11_PossessionRewrite

\* a sentence of the form of C11 with a bracketed subject and object has been
\* translated
Aux_C11_Reached ==
    /\ pc = "translated"
    /\ \E f \in PossessionForms(guarded) :
           bracketed_terms(f.subject) # <<>> /\ bracketed_terms(f.object) # <<>>

\* the text after word substitution (step 3) of the guarded text g
AfterSubstitution(g) ==
    The({substitute_words(p.text, p.protected) : p \in {protect(pre_rules(g))}})

\* the text s of a later step as translate returns it: with the bracketed
\* terms of g restored (step 6) and the whitespace normalised
AsReturned(s, g) == normalise_space(restore(s, protect(pre_rules(g)).protected))

\* the occurrences of listed SOV verb phrases in s, as pairs of the phrase
\* and the index it starts at (every listed phrase ends in ' hai', so the
\* occurrences are looked for where ' hai' stands)
HaiPlaces(s) == {e \in 1..Len(s) : StartsAt(s, e, " hai")}
SovOccurrences(s) ==
    {o \in UNION {{<<v, e + 4 - Len(v)>> : v \in {w \in SovVerbSet : Len(w) < e + 4}} :
                      e \in HaiPlaces(s)} :
        StartsAt(s, o[2], o[1])}

\* the index at which the trailing run of '.', ',', '!' and '?' of s starts
SovPunctStart(s) ==
    MinOf({k \in 1..(Len(s) + 1) : \A j \in k..Len(s) : Ch(s, j) \in SovPunct})

\* the readings of s as 'A V B p': V the one listed SOV verb phrase of s, A
\* and B non-empty, p the trailing punctuation
SovForms(s) ==
    IF Cardinality(SovOccurrences(s)) # 1 THEN {}
    ELSE {f \in {[a |-> SubSeq(s, 1, o[2] - 2),
                  v |-> o[1],
                  b |-> SubSeq(s, o[2] + Len(o[1]) + 1, SovPunctStart(s) - 1),
                  p |-> SubSeq(s, SovPunctStart(s), Len(s))] : o \in SovOccurrences(s)} :
             /\ f.a # "" /\ f.b # ""
             /\ s = f.a \o " " \o f.v \o " " \o f.b \o f.p}

\* C12: when the text after word substitution has the form 'A V B p' (V
\* exactly one listed SOV verb phrase, A and B non-empty, p a possibly empty
\* run of trailing punctuation), the output is 'A B V p': the verb phrase is
\* moved to the end of the sentence and the trailing punctuation stays last
C12_VerbMovedToEnd ==
    pc = "translated" =>
        \A f \in SovForms(AfterSubstitution(guarded)) :
            translated = AsReturned(f.a \o " " \o f.b \o " " \o f.v \o f.p, guarded)

\* a sentence with a bracketed term after its one verb phrase and with
\* trailing punctuation has been translated, the verb phrase now at the end
C12_Witness ==
    /\ pc = "translated"
    /\ \E f \in SovForms(AfterSubstitution(guarded)) :
           /\ f.p # ""
           /\ Contains(f.b, "__P")
           /\ EndsWith(translated, f.v \o f.p)

\* the occurrences '[X] of [Y]' in g: two bracketed terms joined by ' of '
TermPairs(g) ==
    {m \in {[start |-> i, first |-> BracketEnd(g, i),
             second |-> IF BracketEnd(g, i) # 0 /\ StartsAt(g, BracketEnd(g, i) + 1, " of ")
                        THEN BracketEnd(g, BracketEnd(g, i) + 5) ELSE 0] :
                i \in 1..Len(g)} : m.second # 0}

\* C13: for a guarded input that holds two bracketed terms joined as
\* '[X] of [Y]', the output holds them reordered as '[Y] ka [X]'
C13_TermPairSwapped ==
    pc = "translated" =>
        \A m \in TermPairs(guarded) :
            Contains(translated,
                     SubSeq(guarded, m.first + 5, m.second) \o " ka "
                         \o SubSeq(guarded, m.start, m.first))

\* the post rule of step 4 never finds '[X] of [Y]' in the text it is given:
\* brackets are placeholders there, and the output keeps the order '[X] ka [Y]'
Aux_C13_OrderKept ==
    pc = "translated" =>
        \A m \in TermPairs(guarded) :
            (~Contains(guarded, "__P") /\ ~Contains(guarded, "  ")) =>
                Contains(translated,
                         SubSeq(guarded, m.start, m.first) \o " ka "
                             \o SubSeq(guarded, m.first + 5, m.second))

(***************************************************************************)
(* Properties of validate_constraints                                      *)
(***************************************************************************)
\* how often x occurs in the list seq
Occurrences(seq, x) == Cardinality({k \in 1..Len(seq) : seq[k] = x})

\* the two lists hold the same elements, each as often
SameMultiset(a, b) ==
    \A x \in {a[k] : k \in 1..Len(a)} \cup {b[k] : k \in 1..Len(b)} :
        Occurrences(a, x) = Occurrences(b, x)

\* C14: validate_constraints(original, translated) is true if and only if
\* the multiset of bracketed-term contents of original equals that of
\* translated, whatever the order in which the terms occur
C14_ValidIffSameMultiset ==
    pc = "validated" =>
        (valid <=> SameMultiset(bracketed_terms(guarded), bracketed_terms(translated)))

\* a translation that holds the terms of the original in another order has
\* been validated
C14_Witness ==
    /\ pc = "validated"
    /\ valid
    /\ Len(bracketed_terms(guarded)) = 2
    /\ bracketed_terms(guarded) # bracketed_terms(translated)

(***************************************************************************)
(* Properties of unguard_terms                                             *)
(***************************************************************************)
\* no bracketed span of s holds an opening bracket
NoNestedBrackets(s) ==
    \A k \in 1..Len(bracketed_terms(s)) : ~Contains(bracketed_terms(s)[k], "[")

\* C15: for every string x without nested brackets,
\* unguard_terms(unguard_terms(x)) equals unguard_terms(x)
C15_UnguardIdempotent ==
    (pc = "unguarded_twice" /\ NoNestedBrackets(text)) => unguarded = guarded

\* a string without nested brackets has lost a pair of brackets and kept
\* another bracket pair, and has been unguarded twice
C15_Witness ==
    /\ pc = "unguarded_twice"
    /\ NoNestedBrackets(text)
    /\ guarded # text
    /\ Contains(guarded, "[") /\ Contains(guarded, "]")

(***************************************************************************)
(* Properties of the construction of TermExtractor                         *)
(***************************************************************************)
\* C16: constructing TermExtractor(domain) when no glossary file exists for
\* the domain fails with a glossary-not-found error that names the attempted
\* path and creates no extractor; a missing pattern file is not an error:
\* construction succeeds with an empty pattern list
C16_MissingGlossaryFailsMissingPatternsEmpty ==
    pc # "start" =>
        /\ ~glossary_file.exists =>
               /\ pc = "failed"
               /\ StartsAt(raised, 1, "FileNotFoundError: Glossary not found")
               /\ Contains(raised, glossary_path(glossary_file.domain))
               /\ NoExtractor
        /\ (glossary_file.exists /\ ~pattern_file.exists) =>
               /\ patterns = <<>>
               /\ ~StartsAt(raised, 1, "FileNotFoundError")
               /\ pc = "constructed" => (raised = "" /\ single_terms # {})

\* the construction for a domain without glossary file, with a pattern file
\* present, has failed
C16_Witness ==
    /\ pc = "failed"
    /\ ~glossary_file.exists
    /\ pattern_file.exists
    /\ raised # ""

\* the construction for a domain with a glossary file and no pattern file has
\* succeeded
Aux_C16_NoPatternFileConstructed ==
    /\ pc = "constructed"
    /\ glossary_file.exists
    /\ ~pattern_file.exists

(***************************************************************************)
(* Properties of extract_terms                                             *)
(***************************************************************************)
\* the pattern list without the patterns that re rejects
WithoutMalformed(pats) == SelectSeq(pats, LAMBDA pat : pat.regex # "bad")

HasMalformed(pats) == \E k \in 1..Len(pats) : pats[k].regex = "bad"

\* extract_terms has been called: it returned or raised
ExtractCalled == glossary_file.exists /\ pc \in {"extracted", "failed"}

\* C17: for every text, extract_terms with a pattern list that contains a
\* malformed regex does not raise and returns the same terms as extract_terms
\* with that malformed pattern removed from the list
C17_MalformedPatternSkipped ==
    (ExtractCalled /\ HasMalformed(patterns)) =>
        /\ raised = ""
        /\ terms = extract_terms(compound_trie, single_terms, WithoutMalformed(patterns),
                                 deva_map, text).terms

\* with a malformed regex in the pattern list, extract_terms raises what it
\* raises and returns what it returns with that pattern removed
Aux_C17_SameOutcomeWithoutPattern ==
    (ExtractCalled /\ HasMalformed(patterns)) =>
        The({/\ raised = r.err
             /\ r.err = "" => terms = r.terms :
                 r \in {extract_terms(compound_trie, single_terms,
                                      WithoutMalformed(patterns), deva_map, text)}})

\* extract_terms has returned terms of the well-formed pattern that follows a
\* malformed one
Aux_C17_Reached ==
    /\ pc = "extracted"
    /\ HasMalformed(patterns)
    /\ \E k \in 1..Len(terms) : terms[k].end = terms[k].start

(***************************************************************************)
(* Properties of translate_batch                                           *)
(***************************************************************************)
\* what translate gives for the i-th text of the batch on its own
TranslateAlone(i) ==
    baseline_translate(compound_trie, single_terms, patterns, deva_map, texts[i],
                       indic_available)

\* the extractor is as its construction left it
ExtractorAsConstructed ==
    /\ single_terms = {Lower(glossary_file.terms[k].term) : k \in 1..Len(glossary_file.terms)}
    /\ compound_trie = BuildTrie(glossary_file.compound_terms, EmptyDict)
    /\ deva_map = BuildDevaMap(glossary_file.terms \o glossary_file.compound_terms, EmptyMap)

\* C18: for every list of texts, translate_batch returns a list of the same
\* length whose i-th element is the result translate gives for the i-th text
\* on its own, in the order of the texts, and the calls leave the extractor's
\* trie, term set and phonetic map unchanged
C18_BatchIsElementwise ==
    pc \in {"batch_done", "batch_failed"} =>
        /\ pc = "batch_done"
        /\ Len(results) = Len(texts)
        /\ \A i \in 1..Len(texts) :
               TranslateAlone(i) = [raised |-> "", result |-> results[i]]
        /\ ExtractorAsConstructed

\* a batch whose every translate returns gives the list of these results in
\* order; a batch that raises does so with what the first raising translate
\* raises on its own; the extractor stays as constructed in both cases
Aux_C18_ElementwiseOrFirstError ==
    /\ pc = "batch_done" =>
           /\ Len(results) = Len(texts)
           /\ \A i \in 1..Len(texts) :
                  TranslateAlone(i) = [raised |-> "", result |-> results[i]]
           /\ ExtractorAsConstructed
    /\ pc = "batch_failed" =>
           /\ \E i \in 1..Len(texts) :
                  /\ TranslateAlone(i).raised = raised
                  /\ \A j \in 1..(i - 1) : TranslateAlone(j).raised = ""
           /\ ExtractorAsConstructed

\* a batch of two different texts has been translated
Aux_C18_Reached ==
    /\ pc = "batch_done"
    /\ Len(texts) = 2
    /\ results[1] # results[2]

\* translate_batch leaves the fields of the extractor as they are
Aux_C18_ExtractorUnchanged == [][TranslateBatch => UNCHANGED extractor_vars]_vars

\* C19: every term (term_text, devanagari, start, end) that
\* extract_terms(text) returns, for every text and every glossary and pattern
\* configuration, satisfies 0 <= start < end <= len(text)
C19_TermOffsetsInText ==
    pc = "extracted" =>
        \A k \in 1..Len(terms) :
            0 <= terms[k].start /\ terms[k].start < terms[k].end /\ terms[k].end <= Len(text)

\* no configured pattern matches the empty string
NoEmptyMatchPattern(pats) ==
    \A k \in 1..Len(pats) : pats[k].regex = "class" => pats[k].min >= 1

\* the offsets lie in the text and are ordered; a term is empty only when a
\* pattern matches the empty string
Aux_C19_OffsetsWithoutEmptyMatches ==
    pc = "extracted" =>
        \A k \in 1..Len(terms) :
            /\ 0 <= terms[k].start /\ terms[k].start <= terms[k].end
            /\ terms[k].end <= Len(text)
            /\ NoEmptyMatchPattern(patterns) => terms[k].start < terms[k].end

\* terms of the glossary and of a pattern have been extracted from a text
\* with a leading blank and a run of blanks
Aux_C19_Reached ==
    /\ pc = "extracted"
    /\ NoEmptyMatchPattern(patterns) /\ patterns # <<>>
    /\ Len(terms) >= 2
    /\ Ch(text, 1) = " " /\ Contains(text, "  ")

\* the words of a matched text as the glossary lookup sees them: lowercased,
\* attached punctuation stripped, joined by single blanks
GlossaryKey(term) == Join([k \in 1..Len(Split(term)) |-> Clean(Split(term)[k])], " ")

GlossaryEntries ==
    {glossary.terms[k] : k \in 1..Len(glossary.terms)}
        \cup {glossary.compound_terms[k] : k \in 1..Len(glossary.compound_terms)}

\* the term was returned for an occurrence of a glossary term
IsGlossaryMatch(term) == \E e \in GlossaryEntries : Lower(e.term) = GlossaryKey(term)

\* the phonetic renderings the glossary gives for a lowercased term
GlossaryPhonetics(key) ==
    {e.devanagari : e \in {g \in GlossaryEntries : Lower(g.term) = key /\ g.devanagari # ""}}

\* C20: for every term that extract_terms returns from a glossary match, the
\* devanagari field equals the glossary's phonetic rendering of the matched
\* glossary term, whatever the letter case of the occurrence and whatever
\* punctuation is attached to it in the text; the field is '' only when the
\* glossary has no phonetic entry for that term
C20_DevanagariOfGlossaryTerm ==
    pc = "extracted" =>
        \A k \in 1..Len(terms) :
            IsGlossaryMatch(terms[k].term) =>
                IF GlossaryPhonetics(GlossaryKey(terms[k].term)) = {}
                THEN terms[k].devanagari = ""
                ELSE terms[k].devanagari \in GlossaryPhonetics(GlossaryKey(terms[k].term))

\* the same for the occurrences without attached punctuation, in any letter
\* case
Aux_C20_WithoutPunctuation ==
    pc = "extracted" =>
        \A k \in 1..Len(terms) :
            (IsGlossaryMatch(terms[k].term) /\ Lower(terms[k].term) = GlossaryKey(terms[k].term)) =>
                IF GlossaryPhonetics(GlossaryKey(terms[k].term)) = {}
                THEN terms[k].devanagari = ""
                ELSE terms[k].devanagari \in GlossaryPhonetics(GlossaryKey(terms[k].term))

\* a capitalised occurrence of a glossary term with a phonetic entry and an
\* occurrence of a term without one have been extracted
Aux_C20_Reached ==
    /\ pc = "extracted"
    /\ \E k \in 1..Len(terms) : terms[k].term = "For loop" /\ terms[k].devanagari = "~for ~lup"
    /\ \E k \in 1..Len(terms) : terms[k].term = "xo" /\ terms[k].devanagari = ""

(***************************************************************************)
(* Properties of evaluate_quality                                          *)
(***************************************************************************)
\* the distinct terms extracted from the original, lowercased, and those of
\* them that occur in the lowercased translation
ExtractedTerms == {Lower(terms[k].term) : k \in 1..Len(terms)}
PreservedTerms == {t \in ExtractedTerms : Contains(Lower(translated), t)}

\* the metrics are as claimed
QualityAsClaimed ==
    /\ metrics.terminology_preservation.den > 0
    /\ 0 <= metrics.terminology_preservation.num
    /\ metrics.terminology_preservation.num <= metrics.terminology_preservation.den
    /\ metrics.terminology_preservation.num * Cardinality(ExtractedTerms)
           = Cardinality(PreservedTerms) * metrics.terminology_preservation.den
           \/ (terms = <<>> /\ metrics.terminology_preservation.num
                                   = metrics.terminology_preservation.den)
    /\ metrics.length_ratio.den > 0
    /\ Split(translated) # <<>> => metrics.length_ratio.num > 0

\* C21: for all original and translated strings, evaluate_quality returns a
\* terminology_preservation between 0 and 1 inclusive, equal to the fraction
\* of the terms extracted from original that occur case-insensitively in
\* translated and equal to 1 when no term is extracted, and a length_ratio
\* greater than 0 whenever translated has at least one word
C21_QualityMetrics ==
    pc \in {"evaluated", "evaluate_failed"} => (pc = "evaluated" /\ QualityAsClaimed)

\* whenever evaluate_quality returns, the metrics are as claimed
Aux_C21_MetricsWhenReturned == pc = "evaluated" => QualityAsClaimed

\* metrics with one of two extracted terms preserved, in another letter case
Aux_C21_Reached ==
    /\ pc = "evaluated"
    /\ metrics.terminology_preservation = Ratio(1, 2)
    /\ Contains(translated, "LOOP")
    /\ metrics.length_ratio.num > 0

\* C22: for every term that extract_terms returns from the compound-term or
\* single-term scan, start and end are character offsets into the original
\* input: text[start:end] equals term_text, also for texts with leading
\* whitespace or runs of several whitespace characters between words
C22_OffsetsSliceTerm ==
    pc = "extracted" =>
        \A k \in 1..Len(terms) :
            IsGlossaryMatch(terms[k].term) =>
                Slice(text, terms[k].start, terms[k].end) = terms[k].term

\* the same for the texts whose words are separated by single blanks, without
\* leading whitespace
Aux_C22_SingleSpacedTexts ==
    (pc = "extracted" /\ SingleSpaced(text)) =>
        \A k \in 1..Len(terms) :
            IsGlossaryMatch(terms[k].term) =>
                Slice(text, terms[k].start, terms[k].end) = terms[k].term

\* a compound term and a single term have been extracted from a text with
\* single blanks
Aux_C22_Reached ==
    /\ pc = "extracted"
    /\ SingleSpaced(text)
    /\ \E k \in 1..Len(terms) : terms[k].term = "for loop" /\ terms[k].start > 0
    /\ \E k \in 1..Len(terms) : terms[k].term = "Loop."

(***************************************************************************)
(* Properties of pass 2 of ScriptConverter._to_devanagari                  *)
(***************************************************************************)
\* the keys of the Hindi word table
RomanKeys == {ROMAN_TO_DEVA[k][1] : k \in 1..Len(ROMAN_TO_DEVA)}
DevaOf(roman) == The({ROMAN_TO_DEVA[k][2] : k \in {j \in 1..Len(ROMAN_TO_DEVA) :
                                                       ROMAN_TO_DEVA[j][1] = roman}})

\* short is a whole-word sub-phrase of long
IsSubPhrase(short, long) ==
    /\ short # long
    /\ \E a \in 1..Len(Split(long)) : \E b \in a..Len(Split(long)) :
           SubSeq(Split(long), a, b) = Split(short)

\* the entries that hold another entry as a whole-word sub-phrase
LongerEntries == {long \in RomanKeys : \E short \in RomanKeys : IsSubPhrase(short, long)}

\* the places of s where the pass-2 pattern of the entry roman matches
WordOccurrences(s, roman) ==
    {k \in 1..Len(s) : /\ StartsAt(Lower(s), k, roman)
                       /\ BoundaryBefore(s, k)
                       /\ WordBoundaryAfter(s, k + Len(roman) - 1)}

\* the occurrence of roman at k lies inside an occurrence of a longer entry
InsideLonger(s, roman, k) ==
    \E long \in RomanKeys :
        /\ Len(long) > Len(roman)
        /\ \E q \in WordOccurrences(s, long) :
               q <= k /\ k + Len(roman) <= q + Len(long)

\* the occurrence of the entry at k is rendered as the entry's Devanagari
\* value, between the renderings of the text before and after it
RenderedWhole(s, roman, k) ==
    map_words(s) = map_words(SubSeq(s, 1, k - 1)) \o DevaOf(roman)
                       \o map_words(SubSeq(s, k + Len(roman), Len(s)))

\* the text pass 2 works on
PassTwoInput == stash_terms(translated, term_map).text

\* C23: in pass 2 of the Roman-to-Devanagari conversion table entries are
\* applied longest first: for two entries of the Hindi word table where one
\* is a whole-word sub-phrase of the other, an occurrence of the longer entry
\* is rendered as the longer entry's Devanagari value and not as the shorter
\* entry's value applied inside it
C23_LongestEntryFirst ==
    (pc = "word_level_done" /\ to_format = "devanagari") =>
        /\ \A long \in {e \in LongerEntries : Contains(Lower(translated), e)} :
               \A k \in WordOccurrences(PassTwoInput, long) :
                   ~InsideLonger(PassTwoInput, long, k) => RenderedWhole(PassTwoInput, long, k)
        /\ term_map = <<>> => converted = map_words(translated)

\* a text with the entry 'upyog karta hai', which holds the entries 'karta
\* hai' and 'hai', has been converted without term map
C23_Witness ==
    /\ pc = "word_level_done"
    /\ to_format = "devanagari"
    /\ term_map = <<>>
    /\ WordOccurrences(translated, "upyog karta hai") # {}
    /\ Contains(converted, "~upyog ~karta ~hai")
    /\ converted # "~upyog ~karta ~hai"

(***************************************************************************)
(* Properties of the SOV reorder of BaselineTranslator.translate           *)
(***************************************************************************)
\* the text that step 5 works on: after word substitution and post rules
BeforeReorder(g) == post_rules(AfterSubstitution(g))

\* the occurrences of listed verb phrases in s with text on both sides: a
\* word and whitespace before, whitespace and a character after
MidSentence(s) ==
    {o \in SovOccurrences(s) :
        /\ o[2] >= 3 /\ Ch(s, o[2] - 1) = " "
        /\ o[2] + Len(o[1]) + 1 <= Len(s) /\ Ch(s, o[2] + Len(o[1])) = " "}

\* the phrase v comes before the phrase w in the longest-first priority
\* list: it is longer, or as long and written earlier
Written(v) == The({k \in 1..Len(SOV_VERB_LIST) : SOV_VERB_LIST[k] = v})
ComesFirst(v, w) == Len(v) > Len(w) \/ (Len(v) = Len(w) /\ Written(v) < Written(w))

\* the occurrence that is moved: of the phrases with a mid-sentence
\* occurrence the first in the priority list, at its first such occurrence
MovedAmong(mid) ==
    The({o \in mid :
            \A other \in mid :
                \/ ComesFirst(o[1], other[1])
                \/ o[1] = other[1] /\ o[2] <= other[2]})

\* what follows the occurrence o, without its trailing punctuation (one
\* character at least)
ObjectOf(s, o) ==
    The({IF SovPunctStart(rest) = 1 THEN SubSeq(rest, 1, 1)
         ELSE SubSeq(rest, 1, SovPunctStart(rest) - 1) :
             rest \in {SubSeq(s, o[2] + Len(o[1]) + 1, Len(s))}})

\* s with the occurrence o moved behind what follows it, before the trailing
\* punctuation; everything else stays where it is
WithMoved(s, o) ==
    SubSeq(s, 1, o[2] - 2) \o " " \o ObjectOf(s, o) \o " " \o o[1]
        \o SubSeq(s, o[2] + Len(o[1]) + 1 + Len(ObjectOf(s, o)), Len(s))

\* C24: at most one verb phrase is relocated per call of translate: when
\* several listed SOV verb phrases occur mid-sentence only the one that comes
\* first in the longest-first priority list is moved, and when no listed
\* phrase has text on both sides the word order produced by word
\* substitution is left unchanged
C24_OneVerbPhraseMoved ==
    pc = "translated" =>
        The({The({The({translated = normalise_space(restore(
                           IF mid = {} THEN s ELSE WithMoved(s, MovedAmong(mid)),
                           p.protected)) :
                          mid \in {MidSentence(s)}}) :
                     s \in {post_rules(substitute_words(p.text, p.protected))}}) :
                 p \in {protect(pre_rules(guarded))}})

\* a sentence with two different verb phrases mid-sentence, the one listed
\* later in the source being the longer, has been translated
C24_Witness ==
    /\ pc = "translated"
    /\ Cardinality({o[1] : o \in MidSentence(BeforeReorder(guarded))}) = 2
    /\ EndsWith(translated, "contain karta hai.")
    /\ Contains(translated, "return karta hai x")

\* a sentence whose only verb phrase is sentence-final has been translated
Aux_C24_FinalVerbReached ==
    /\ pc = "translated"
    /\ SovOccurrences(BeforeReorder(guarded)) # {}
    /\ MidSentence(BeforeReorder(guarded)) = {}

(***************************************************************************)
(* Properties of the possession pre-rule                                   *)
(***************************************************************************)
\* the token is the word 'been', possibly with characters that are no word
\* characters attached behind it
IsBeen(w) ==
    /\ StartsAt(Lower(w), 1, "been")
    /\ (Len(w) = 4 \/ Ch(w, 5) \notin WordChars)

\* g holds the word 'has', and each 'has' of g is followed by the word 'been'
OnlyHasBeen(g) ==
    The({/\ \E k \in 1..Len(words) : Lower(words[k]) = "has"
         /\ \A k \in 1..Len(words) :
                Lower(words[k]) = "has" => (k < Len(words) /\ IsBeen(words[k + 1])) :
             words \in {Split(g)}})

\* no token of g is or becomes a word with 'hain'
NoHainWord(g) ==
    \A k \in 1..Len(Split(g)) :
        /\ ~Contains(Lower(Split(g)[k]), "hain")
        /\ Clean(Split(g)[k]) \in DOMAIN word_map =>
               ~Contains(word_map[Clean(Split(g)[k])], "hain")

\* C25: the possession pre-rule is not applied to a 'has' that is immediately
\* followed by the word 'been': a sentence whose only 'has' is followed by
\* 'been' passes through the pre-rule stage unchanged, with no 'mein ...
\* hain' rewrite
C25_HasBeenNotRewritten ==
    (pc = "translated" /\ OnlyHasBeen(guarded)) =>
        /\ pre_rules(guarded) = guarded
        /\ translated = translate_protected(protect(guarded))
        /\ NoHainWord(guarded) => ~Contains(translated, "hain")

\* a sentence with a subject, 'has been' in another letter case and an object
\* with a bracketed term has been translated
C25_Witness ==
    /\ pc = "translated"
    /\ OnlyHasBeen(guarded)
    /\ Len(Split(guarded)) >= 4
    /\ ~Contains(guarded, "has been")
    /\ bracketed_terms(translated) # <<>>

\* the same 'has' followed by another word is rewritten
Aux_C25_HasRewritten ==
    /\ pc = "translated"
    /\ guarded = "x has [a]."
    /\ pre_rules(guarded) = "x mein [a] hain."

(***************************************************************************)
(* Properties of the word-substitution step                                *)
(***************************************************************************)
\* the word is no placeholder and its cleaned form is not in the word table
Unmapped(word, protected) ==
    /\ ~IsPlaceholder(word, protected)
    /\ Clean(word) \notin DOMAIN word_map

\* the word is no placeholder and its mapping is the empty string
MappedToNothing(word, protected) ==
    /\ ~IsPlaceholder(word, protected)
    /\ Clean(word) \in DOMAIN word_map
    /\ word_map[Clean(word)] = ""

\* the number of the first k words that are not mapped to the empty string
Emitted(words, k, protected) ==
    Cardinality({j \in 1..k : ~MappedToNothing(words[j], protected)})

\* out holds one element for each word that is not mapped to the empty
\* string, in the order of the words, and the element of an unmapped word is
\* the word itself
SubstitutedInOrder(words, out, protected) ==
    /\ Len(out) = Emitted(words, Len(words), protected)
    /\ \A k \in 1..Len(words) :
           Unmapped(words[k], protected) =>
               out[Emitted(words, k, protected)] = words[k]

\* C26: in the word-substitution step every token that is no placeholder and
\* whose lowercased, punctuation-stripped form is not in the word table is
\* emitted unchanged and in the same relative order, a token whose mapping is
\* the empty string is emitted as nothing, and the step never raises
C26_UnmappedTokensUnchanged ==
    /\ pc \in {"guarded_input", "translated"}
    /\ raised = ""
    /\ pc = "translated" =>
           The({The({The({/\ SubstitutedInOrder(words, out, p.protected)
                          /\ translated = normalise_space(restore(sov_reorder(
                                 post_rules(Join(out, " "))), p.protected)) :
                              out \in {SubstituteFrom(words, 1, p.protected)}}) :
                         words \in {Split(p.text)}}) :
                    p \in {protect(pre_rules(guarded))}})

\* a sentence with an article that is dropped, a mapped word, and unmapped
\* tokens in upper case and with punctuation has been translated
C26_Witness ==
    /\ pc = "translated"
    /\ \E k \in 1..Len(Split(guarded)) :
           MappedToNothing(Split(guarded)[k], <<>>)
    /\ \E k \in 1..Len(Split(guarded)) :
           /\ Unmapped(Split(guarded)[k], <<>>)
           /\ Clean(Split(guarded)[k]) # Split(guarded)[k]
    /\ \E k \in 1..Len(Split(guarded)) :
           /\ Clean(Split(guarded)[k]) \in DOMAIN word_map
           /\ word_map[Clean(Split(guarded)[k])] # ""
    /\ translated # ""

(***************************************************************************)
(* Properties of the compound-term candidates                              *)
(***************************************************************************)
\* the word sequences of the glossary's compound terms
CompoundTermWords ==
    {Split(Lower(glossary.compound_terms[k].term)) :
         k \in 1..Len(glossary.compound_terms)}

\* the cleaned tokens from start index i (0-based) on are the words tw
TermStartsAt(words, i, tw) ==
    /\ tw # <<>>
    /\ i + Len(tw) <= Len(words)
    /\ \A k \in 1..Len(tw) : Clean(words[i + k]) = tw[k]

\* the span of the n tokens from start index i on, in the text of the tokens
\* joined by single blanks
TokenSpan(words, i, n) ==
    The({Span(t, a, a + Len(t)) :
             t \in {Join(SubSeq(words, i + 1, i + n), " ")},
             a \in {Len(Join(SubSeq(words, 1, i) \o <<"">>, " "))}})

\* one span for each start index and each compound term that starts there
CandidatesAsClaimed(words) ==
    {TokenSpan(words, i, Len(tw)) :
         <<i, tw>> \in {p \in (0..(Len(words) - 1)) \X CompoundTermWords :
                            TermStartsAt(words, p[1], p[2])}}

CandidatesRecorded ==
    /\ {spans[k] : k \in 1..Len(spans)} = CandidatesAsClaimed(Split(text))
    /\ Len(spans) = Cardinality(CandidatesAsClaimed(Split(text)))

\* C27: for every start token index i, _extract_compound_terms records one
\* candidate span for each glossary compound term whose word sequence equals
\* the lowercased, punctuation-stripped tokens starting at i (a term and a
\* longer term it prefixes both become candidates), and it records no
\* candidate that does not correspond to a glossary compound term
C27_CompoundCandidates ==
    pc \in {"candidates", "compound_failed"} =>
        /\ pc = "candidates"
        /\ CandidatesRecorded

\* the same for the calls that return
Aux_C27_CandidatesWhenReturned ==
    pc = "candidates" => CandidatesRecorded

\* a call has returned two candidates with the same start, one a prefix of
\* the other
Aux_C27_Reached ==
    /\ pc = "candidates"
    /\ \E a, b \in 1..Len(spans) :
           /\ spans[a].start = spans[b].start
           /\ spans[a].end < spans[b].end
    /\ \E a \in 1..Len(spans) : spans[a].text # Lower(spans[a].text)

(***************************************************************************)
(* Properties of extract_terms on arbitrary tokens                         *)
(***************************************************************************)
\* a token whose cleaned form is the terminal-marker key '$' stands right
\* after a complete compound term
MarkerAfterTerm(words) ==
    \E i \in 0..(Len(words) - 1) : \E tw \in CompoundTermWords :
        /\ TermStartsAt(words, i, tw)
        /\ i + Len(tw) < Len(words)
        /\ Clean(words[i + Len(tw) + 1]) = "$"

\* C28: for every input text, whatever tokens it contains (including a token
\* equal to the trie's terminal-marker key '$' right after a complete
\* compound term), extract_terms returns a term list and does not raise
C28_ExtractNeverRaises ==
    ExtractCalled => (pc # "failed" /\ raised = "")

\* extract_terms raises exactly on the texts with the marker token right
\* after a complete compound term, and then with AttributeError
Aux_C28_RaisesOnMarkerOnly ==
    ExtractCalled =>
        /\ (pc = "failed") <=> MarkerAfterTerm(Split(text))
        /\ pc = "failed" => raised = "AttributeError"

\* a text with the token '$' that is not right after a compound term has
\* been extracted from
Aux_C28_Reached ==
    /\ pc = "extracted"
    /\ \E k \in 1..Len(Split(text)) : Split(text)[k] = "$"
    /\ terms # <<>>

(***************************************************************************)
(* Properties of baseline translation under validate_constraints           *)
(***************************************************************************)
\* C29: for every guarded text g, including text with runs of whitespace
\* inside a bracketed term and text with a literal placeholder-like token
\* such as '__P0__', validate_constraints(g, translate(g)) is true: baseline
\* translation never adds, drops or alters a bracketed term
C29_TranslationKeepsTerms ==
    pc = "translated" => validate_constraints(guarded, translated)

\* the same for guarded texts without a placeholder-like word and without a
\* whitespace run other than a single blank inside a bracketed term
Aux_C29_PlainTerms ==
    (/\ pc = "translated"
     /\ ~Contains(guarded, "__P")
     /\ \A k \in 1..Len(bracketed_terms(guarded)) :
            CollapseFrom(bracketed_terms(guarded)[k], 1) = bracketed_terms(guarded)[k])
        => validate_constraints(guarded, translated)

\* a sentence with two different bracketed terms that is rewritten by the
\* verb step has been translated and validates
Aux_C29_Reached ==
    /\ pc = "translated"
    /\ ~Contains(guarded, "__P")
    /\ Len(bracketed_terms(guarded)) = 2
    /\ bracketed_terms(guarded)[1] # bracketed_terms(guarded)[2]
    /\ Contains(guarded, "runs")
    /\ validate_constraints(guarded, translated)

\* a literal placeholder-like token is replaced by a bracketed term
Aux_C29_PlaceholderCollision ==
    /\ pc = "translated"
    /\ guarded = "__P0__ [a]"
    /\ translated = "[a] [a]"

(***************************************************************************)
(* Properties of the candidates that resolve_overlapping_spans drops       *)
(***************************************************************************)
\* two spans that only touch: one ends where the other starts, and they do
\* not overlap
OnlyTouch(a, b) == (a.end = b.start \/ b.end = a.start) /\ ~SpansOverlap(a, b)

\* every returned span is one of the candidates, as often at most as it is
\* among the candidates
ResolvedFromCandidates ==
    \A k \in 1..Len(resolved) :
        /\ \E i \in 1..Len(spans) : spans[i] = resolved[k]
        /\ Cardinality({m \in 1..Len(resolved) : resolved[m] = resolved[k]})
               <= Cardinality({i \in 1..Len(spans) : spans[i] = resolved[k]})

\* every candidate that is not returned overlaps a returned span
DroppedOverlapKept ==
    \A i \in 1..Len(spans) :
        ~InResolved(spans[i]) =>
            \E k \in 1..Len(resolved) : SpansOverlap(spans[i], resolved[k])

\* s overlaps a returned span other than itself
OverlapsOtherKept(s) ==
    \E k \in 1..Len(resolved) : resolved[k] # s /\ SpansOverlap(s, resolved[k])

\* C30 as stated: for every list of candidate spans, every span in the output
\* of resolve_overlapping_spans is one of the input candidates, every input
\* candidate missing from the output overlaps (by more than a shared
\* boundary) some span of the output, and two candidates that only touch at
\* a boundary are both kept
C30_TouchingBothKept ==
    pc = "resolved" =>
        /\ ResolvedFromCandidates
        /\ DroppedOverlapKept
        /\ \A i, j \in 1..Len(spans) :
               OnlyTouch(spans[i], spans[j]) =>
                   (InResolved(spans[i]) /\ InResolved(spans[j]))

\* C30 amended: every span in the output is one of the input candidates,
\* every input candidate missing from the output overlaps (by more than a
\* shared boundary) some span of the output, and each of two candidates that
\* only touch at a boundary is kept unless it overlaps another span of the
\* output
C30_TouchingKeptUnlessOverlapped ==
    pc = "resolved" =>
        /\ ResolvedFromCandidates
        /\ DroppedOverlapKept
        /\ \A i, j \in 1..Len(spans) :
               (OnlyTouch(spans[i], spans[j]) /\ ~OverlapsOtherKept(spans[i]))
                   => InResolved(spans[i])

\* two candidates that only touch are both returned and a third candidate
\* that overlaps both is dropped
C30_Witness ==
    /\ pc = "resolved"
    /\ \E i, j, d \in 1..Len(spans) :
           /\ SpanLen(spans[i]) > 0 /\ SpanLen(spans[j]) > 0
           /\ OnlyTouch(spans[i], spans[j])
           /\ InResolved(spans[i]) /\ InResolved(spans[j])
           /\ SpansOverlap(spans[d], spans[i]) /\ SpansOverlap(spans[d], spans[j])
           /\ ~InResolved(spans[d])

=============================================================================
